--------------------------- MODULE MCHybridServer ---------------------------
\* The hybrid server with the constants its configurations give.  Requests are
\* interchangeable, but symmetry is not sound for what must eventually happen.
EXTENDS HybridServer

\* One message of every fate: served as it is, served without a pair, given up
\* for a header, given up for its status, not even extracted.
EveryFate ==
  { [status |-> 200,  headers |-> {"plain"}],
    [status |-> 200,  headers |-> {"plain", "unprintable"}],
    [status |-> 200,  headers |-> {"plain", "misnamed"}],
    [status |-> 1000, headers |-> {}],
    [status |-> 200,  headers |-> {"tuple"}] }

\* What every ASGI server has to take: pairs that are lists or tuples.
LegalStarts ==
  { [status |-> 200, headers |-> {"plain"}], [status |-> 200, headers |-> {"plain", "tuple"}] }
=============================================================================
