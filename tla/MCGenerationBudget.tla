------------------------- MODULE MCGenerationBudget -------------------------
EXTENDS GenerationBudget

\* Three operators under both kinds of generator; a total that allows one, two
\* or three full reservations, or none, and timeouts of one and two milliseconds.
MCConfigurations ==
  [operators : {3}, reserves : {TRUE}, evidence : {TRUE}, per : {2}, total : {1, 3, 6},
   operatorTimeout : {1, 2}, globalTimeout : {2}]
  \cup [operators : {1, 3}, reserves : {FALSE}, evidence : BOOLEAN, per : {2}, total : {3},
        operatorTimeout : {1}, globalTimeout : {2}]
=============================================================================
