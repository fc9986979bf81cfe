------------------------------ MODULE MCAgents ------------------------------
EXTENDS Agents

MCTexts == { <<"x", "x", "nl", "x", "hi", "lo", "x">>,
             <<"x", "x", "x", "hi", "lo", "nl", "x", "x", "hi", "lo">>,
             <<>> }

MCLegacy == <<"l3", "l2">>

\* Both generations; a newer stateless version and the older session; a newer session
\* version with the server's newest behind it, and without it; nothing shared.
MCClients ==
  { <<"m1", "l3">>, <<"m2", "l2">>, <<"l4", "l3">>, <<"l4", "l2">>, <<"m2", "l0">> }
=============================================================================
