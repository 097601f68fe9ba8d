-------------------------- MODULE MCControlShadow ---------------------------
EXTENDS ControlShadow

\* The two wheels pulled apart by three of four steps, of which a word tells one
\* permille, and less than a permille beside full effort.
MCCommands == {[drive |-> 3, reaction |-> -3], [drive |-> -1, reaction |-> 4]}
=============================================================================
