------------------------------- MODULE Agents -------------------------------
(***************************************************************************)
(* The MCP endpoint (src/site/agents.ts: createAgents, dispatch, get_page) *)
(* and an agent that reads a page through it: it probes, agrees on a       *)
(* version, opens a session where the version has one, reads the page      *)
(* window by window, waits when it is told to and sends a request again    *)
(* when its answer was lost.  Strangers ask at any time from any address.  *)
(*                                                                         *)
(* Tokens come back with the clock of the process, which may be set back;  *)
(* a deploy starts a new process, with an empty table and maybe another    *)
(* text of the page.                                                       *)
(***************************************************************************)
EXTENDS Buckets, PageWindow

CONSTANTS Texts,      \* what the page may say
          Modern,     \* MODERN_PROTOCOL_VERSIONS
          Legacy,     \* LEGACY_PROTOCOL_VERSIONS, newest first
          Clients,    \* what an agent may speak: its versions, newest first
          Stateless,  \* the versions without a session, ours or not
          Me,         \* the address of the agent, which it shares with nobody
          MaxLost,    \* bound: answers lost on the way
          MaxDeploys  \* bound: deploys

ASSUME AgentsAssumption ==
  /\ Texts \subseteq Seq(Units)
  /\ Me \in Keys /\ Modern \subseteq Stateless
  /\ Stateless \cap ToSet(Legacy) = {}
  /\ MaxLost \in Nat /\ MaxDeploys \in Nat

VARIABLES page,     \* the text of the page in the running process
          speaks,   \* the agent's versions, newest first
          agent,    \* where the agent is, the version it uses, what it has got
                    \* and (history) the texts its windows were of
          rest,     \* the ticks the agent still waits after a refusal
          patient,  \* it has waited a refusal out, and the clock was not set back
          budget    \* what is left of MaxBack, MaxLost and MaxDeploys

vars == <<table, page, speaks, agent, rest, patient, budget>>

Supported == Modern \cup ToSet(Legacy)
-----------------------------------------------------------------------------
(* The endpoint.  A message has a method, whether it has an id, the version *)
(* its _meta and its header name, and what initialize or get_page asks for. *)

Answer(status, body) == [status |-> status, body |-> body]

\* get_page from an offset: a window, and the offset of the next one if any.
GetPage(offset) ==
  LET total == Len(page)
      end   == windowEnd(page, offset)
  IN  IF offset > 0 /\ offset >= total THEN [error |-> "past the end"]
      ELSE [text |-> SubSeq(page, offset + 1, end), next |-> IF end < total THEN end ELSE 0]

Called(m) ==
  IF m.method = "tools/call" THEN Answer(200, GetPage(m.asked)) ELSE Answer(200, "ok")

\* Mutant of LegacyAnswer: the header is read on initialize too.
LegacyReadsHeader(m) ==
  IF m.header \notin ToSet(Legacy) \cup {"none"} THEN Answer(400, "invalidRequest")
  ELSE IF m.method = "initialize"
       THEN Answer(200, IF m.asked \in ToSet(Legacy) THEN m.asked ELSE Head(Legacy))
  ELSE Called(m)

\* legacy(): initialize negotiates in its body, everything else by its header.
LegacyAnswer(m) ==
  IF m.method = "initialize"
  THEN Answer(200, IF m.asked \in ToSet(Legacy) THEN m.asked ELSE Head(Legacy))
  ELSE IF m.header \notin ToSet(Legacy) \cup {"none"} THEN Answer(400, "invalidRequest")
  ELSE Called(m)

\* modern(): the version is in the _meta of every request, and the headers
\* have to say the same.
ModernAnswer(m) ==
  IF m.meta = "none" THEN Answer(400, "invalidParams")
  ELSE IF m.meta \notin Modern THEN Answer(400, "unsupportedVersion")
  ELSE IF m.header # m.meta THEN Answer(400, "headerMismatch")
  ELSE Called(m)

\* dispatch(): a notification is accepted and never answered.
Dispatch(m) ==
  IF ~m.id THEN Answer(202, "none")
  ELSE IF m.method # "initialize" /\ (m.meta # "none" \/ m.header \in Modern) THEN ModernAnswer(m)
  ELSE LegacyAnswer(m)

\* mcp(): the limit comes before the message is read.
Handle(k, m) == IF Wait(Tokens(k)) > 0 THEN Answer(429, Wait(Tokens(k))) ELSE Dispatch(m)
-----------------------------------------------------------------------------
(* The agent.                                                              *)

Message(method, id, meta, header, what) ==
  [method |-> method, id |-> id, meta |-> meta, header |-> header, asked |-> what]

\* What the agent sends next.  An agent that falls back to initialize may still
\* send the header of its probe, and one in a session may leave the header out.
Messages ==
  LET v == agent.version
      probe == IF Head(speaks) \in Stateless THEN Head(speaks) ELSE "none"
  IN  IF agent.phase = "probe" THEN {Message("server/discover", TRUE, v, v, "none")}
      ELSE IF agent.phase = "open"
           THEN {Message("initialize", TRUE, "none", h, v) : h \in {"none", probe}}
      ELSE IF agent.phase = "opened"
           THEN {Message("notifications/initialized", FALSE, "none", v, "none")}
      ELSE IF v \in Stateless THEN {Message("tools/call", TRUE, v, v, Len(agent.got))}
      ELSE {Message("tools/call", TRUE, "none", h, Len(agent.got)) : h \in {"none", v}}

\* The newest version both sides speak, "none" when there is none.
Common ==
  LET shared == SelectSeq(speaks, LAMBDA v : v \in Supported)
  IN  IF shared = <<>> THEN "none" ELSE Head(shared)

At(phase, v) == [phase |-> phase, version |-> v, got |-> <<>>, of |-> {}]

Opening(v) == At(IF v \in Stateless THEN "probe" ELSE "open", v)

\* A refused version: the agent goes on with one the server lists.
AfterProbe(reply) ==
  IF reply.status = 200 THEN At("reading", agent.version)
  ELSE IF Common = "none" THEN At("declined", agent.version)
  ELSE Opening(Common)

AfterOpen(reply) ==
  IF reply.status = 200 /\ reply.body \in ToSet(speaks) THEN At("opened", reply.body)
  ELSE At("declined", agent.version)

\* A window goes behind what was read; past the end, the agent starts again.
AfterWindow(reply) ==
  IF reply.status # 200 THEN At("declined", agent.version)
  ELSE IF "error" \in DOMAIN reply.body THEN At("reading", agent.version)
  ELSE [agent EXCEPT !.got = @ \o reply.body.text,
                     !.of = @ \cup {page},
                     !.phase = IF reply.body.next = 0 THEN "done" ELSE @]

After(reply) ==
  IF agent.phase = "probe" THEN AfterProbe(reply)
  ELSE IF agent.phase = "open" THEN AfterOpen(reply)
  ELSE IF agent.phase = "opened" THEN At("reading", agent.version)
  ELSE AfterWindow(reply)
-----------------------------------------------------------------------------
AgentsInit ==
  /\ BucketsInit
  /\ page \in Texts /\ speaks \in Clients
  /\ agent = Opening(Head(speaks))
  /\ rest = 0 /\ patient = FALSE
  /\ budget = [back |-> MaxBack, lost |-> MaxLost, deploys |-> MaxDeploys]

Active == agent.phase \notin {"done", "declined"} /\ rest = 0

\* A request of the agent that is refused: it waits as long as it is told.
Refused ==
  /\ Active /\ Wait(Tokens(Me)) > 0
  /\ Ask(Me)
  /\ rest' = Wait(Tokens(Me)) * PerSecond
  /\ patient' = TRUE
  /\ UNCHANGED <<page, speaks, agent, budget>>

\* A request that is served.
Served ==
  /\ Active /\ Wait(Tokens(Me)) = 0
  /\ Ask(Me)
  /\ \E m \in Messages : agent' = After(Handle(Me, m))
  /\ patient' = FALSE
  /\ UNCHANGED <<page, speaks, rest, budget>>

\* A request whose answer is lost: the agent sends it again.
Lost ==
  /\ Active /\ budget.lost > 0
  /\ Ask(Me)
  /\ patient' = FALSE
  /\ budget' = [budget EXCEPT !.lost = @ - 1]
  /\ UNCHANGED <<page, speaks, agent, rest>>

\* A request from another address, whatever it says.
Stranger(k) ==
  /\ k # Me
  /\ Ask(k)
  /\ UNCHANGED <<page, speaks, agent, rest, patient, budget>>

Clock ==
  /\ Tick
  /\ rest' = IF rest = 0 THEN 0 ELSE rest - 1
  /\ UNCHANGED <<page, speaks, agent, patient, budget>>

ClockBack(d) ==
  /\ d <= budget.back
  /\ StepBack(d)
  /\ patient' = FALSE
  /\ budget' = [budget EXCEPT !.back = @ - d]
  /\ UNCHANGED <<page, speaks, agent, rest>>

Deploy ==
  /\ budget.deploys > 0
  /\ Restart
  /\ page' \in Texts
  /\ budget' = [budget EXCEPT !.deploys = @ - 1]
  /\ UNCHANGED <<speaks, agent, rest, patient>>

Next ==
  \/ Refused \/ Served \/ Lost \/ Clock \/ Deploy
  \/ \E k \in Keys : Stranger(k)
  \/ \E d \in 1..MaxBack : ClockBack(d)

Fairness == WF_vars(Clock) /\ WF_vars(Refused) /\ WF_vars(Served)

Spec == AgentsInit /\ [][Next]_vars /\ Fairness
-----------------------------------------------------------------------------
\* An agent that waited as long as a refusal said is served: the wait is not
\* too short, however many requests others send meanwhile.
RetryAfterSuffices == [][~(Refused /\ patient)]_vars

\* In a process whose clock was never set back, a client that loses its bucket to
\* a new one is one that no client still in the table was silent for longer than.
RecentKeysKept ==
  [][(budget.back = MaxBack /\ budget'.deploys = budget.deploys)
       => \A gone \in DOMAIN bucket \ DOMAIN bucket' :
            \A kept \in DOMAIN bucket \cap DOMAIN bucket' : bucket[kept].age <= bucket[gone].age]_vars

\* The windows of one text, put behind each other, are that text from its
\* start, and no window ends within a surrogate pair; an agent is done only
\* with the whole text, unless the page was deployed anew under its reading.
WholePage ==
  \A t \in Texts : agent.of \subseteq {t} =>
    /\ agent.got = SubSeq(t, 1, Len(agent.got))
    /\ ~SplitsPair(t, Len(agent.got))
    /\ agent.phase = "done" => agent.got = t

\* An agent whose newest version has a session begins with initialize, which names one
\* version and no list: where the server lacks it, the answer is the server's newest
\* session version, and an agent without that one is never told of an older one both
\* speak.
Understood ==
  \/ Head(speaks) \in Stateless \cup ToSet(Legacy)
  \/ Head(Legacy) \in ToSet(speaks)

\* An agent that shares a version with the server reads the page, through refusals,
\* a lost answer and a deploy, whatever else it speaks, unless its initialize is not
\* understood; one that shares none is turned away by itself.
EveryAgentReads ==
  <>(agent.phase = IF Common # "none" /\ Understood THEN "done" ELSE "declined")
=============================================================================
