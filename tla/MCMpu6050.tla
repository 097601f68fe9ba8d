----------------------------- MODULE MCMpu6050 ------------------------------
EXTENDS Mpu6050
=============================================================================
