--------------------------- MODULE InstallProofs ---------------------------
(***************************************************************************)
(* What the wiring check accepts cannot be shipped unwired, and what       *)
(* install appends keeps the build it found, for every script, site and    *)
(* outcome of every command.                                               *)
(*                                                                         *)
(* A shell goes through a script command by command, so Trace, Kept and    *)
(* Loop are recursive functions over the places of a sequence.  That such  *)
(* a function exists, and what every place of it is like, are inductions   *)
(* over the places, which Places states for sets of them.                  *)
(***************************************************************************)
EXTENDS Install, SequenceTheorems, WellFoundedInduction, TLAPS

\* A set of places that begins with the first and goes on to the next has all.
LEMMA Places ==
  ASSUME NEW n \in Nat, NEW m \in Nat, NEW S,
         m \in S, \A i \in m..n : i < n /\ i \in S => i + 1 \in S
  PROVE  \A i \in m..n : i \in S
<1> DEFINE Out == {i \in Nat : i \in m..n /\ i \notin S}
<1>1. SUFFICES ASSUME Out # {} PROVE FALSE
  OBVIOUS
<1>2. IsWellFoundedOn(OpToRel(<, Nat), Nat)
  BY NatLessThanWellFounded
<1>3. PICK i \in Out : \A j \in Out : <<j, i>> \notin OpToRel(<, Nat)
  <2>1. Out \in SUBSET Nat
    OBVIOUS
  <2> HIDE DEF Out
  <2> QED BY <1>1, <1>2, <2>1, WFMin, Zenon
<1>4. i # m
  BY <1>3
<1>5. i - 1 \in Nat /\ i - 1 \in m..n /\ i - 1 < n /\ <<i - 1, i>> \in OpToRel(<, Nat)
  BY <1>3, <1>4 DEF OpToRel
<1>6. i - 1 \in S
  BY <1>3, <1>5
<1>7. (i - 1) + 1 \in S
  BY <1>5, <1>6
<1>8. i \in Nat /\ (i - 1) + 1 = i
  OBVIOUS
<1> QED BY <1>3, <1>7, <1>8
-----------------------------------------------------------------------------
(* The shell.                                                              *)

Start == [op |-> ";", go |-> TRUE, ok |-> TRUE, ran |-> {}, gone |-> "no", valid |-> TRUE]

IsTrace(f, s, out, n) ==
  f = [i \in 0..n |-> IF i = 0 THEN Start ELSE Run(s, out, f[i - 1], i)]

\* There is a function that goes through a script as Trace says, command by command.
LEMMA TraceExists ==
  ASSUME NEW s, NEW out, NEW k \in Nat
  PROVE  \E f : IsTrace(f, s, out, k)
<1> DEFINE S == {n \in Nat : \E f : IsTrace(f, s, out, n)}
<1>1. 0 \in S
  <2>1. IsTrace([i \in 0..0 |-> Start], s, out, 0)
    BY DEF IsTrace
  <2> QED BY <2>1
<1>2. ASSUME NEW n \in 0..k, n \in S PROVE n + 1 \in S
  <2>1. PICK f : IsTrace(f, s, out, n)
    BY <1>2
  <2> DEFINE g == [i \in 0..n + 1 |-> IF i <= n THEN f[i] ELSE Run(s, out, f[n], n + 1)]
  <2>2. ASSUME NEW i \in 0..n + 1
        PROVE  g[i] = IF i = 0 THEN Start ELSE Run(s, out, g[i - 1], i)
    <3>1. CASE i <= n
      <4>1. i \in 0..n /\ i <= n + 1
        BY <3>1
      <4>2. f[i] = IF i = 0 THEN Start ELSE Run(s, out, f[i - 1], i)
        BY <2>1, <4>1 DEF IsTrace
      <4>3. i # 0 => g[i - 1] = f[i - 1]
        BY <4>1
      <4> QED BY <3>1, <4>2, <4>3
    <3>2. CASE i = n + 1
      BY <3>2
    <3> QED BY <3>1, <3>2
  <2> HIDE DEF g
  <2>3. g = [i \in 0..n + 1 |-> g[i]]
    BY DEF g
  <2>4. g = [i \in 0..n + 1 |-> IF i = 0 THEN Start ELSE Run(s, out, g[i - 1], i)]
    BY <2>2, <2>3
  <2> QED BY <2>4 DEF IsTrace
<1> HIDE DEF S
<1>3. k \in S
  BY <1>1, <1>2, Places
<1> QED BY <1>3 DEF S

\* Trace is one: it begins with Start, and every place is the run of a command on the one before.
LEMMA TraceIs ==
  ASSUME NEW s, NEW out, Len(s) \in Nat
  PROVE  /\ Trace(s, out)[0] = Start
         /\ \A i \in 1..Len(s) : Trace(s, out)[i] = Run(s, out, Trace(s, out)[i - 1], i)
<1>1. Trace(s, out) = [i \in 0..Len(s) |-> IF i = 0 THEN Start ELSE Run(s, out, Trace(s, out)[i - 1], i)]
  <2>1. PICK f : IsTrace(f, s, out, Len(s))
    BY TraceExists
  <2> QED BY <2>1 DEF IsTrace, Trace, Start
<1> QED BY <1>1

States == [op : Operators, go : BOOLEAN, ok : BOOLEAN, ran : SUBSET Nat,
           gone : {"no", "list", "shell"}, valid : BOOLEAN]

\* How a state stands after a command that was run or skipped.
OkAfter(s, out, r, i) ==
  IF r.gone = "shell" THEN r.ok ELSE s[i].after = "&" \/ (IF Goes(r) THEN out[i] ELSE r.ok)

Succeeds(s, out) == \A i \in 1..Len(s) : out[i] \in BOOLEAN

\* Whether the next command runs is decided.
LEMMA GoesIs ==
  ASSUME NEW r \in States
  PROVE  Goes(r) \in BOOLEAN
  BY DEF Goes

\* A command leaves a state of the shell.
LEMMA RunType ==
  ASSUME NEW s \in Seq(Segments), NEW out, NEW r \in States, NEW i \in 1..Len(s), out[i] \in BOOLEAN
  PROVE  Run(s, out, r, i) \in States
<1>1. s[i] \in Segments
  OBVIOUS
<1>2. CASE s[i].does = "nothing"
  <2>1. Continues(r.op, s[i].after) \in BOOLEAN
    BY DEF Continues
  <2> QED BY <1>2, <2>1 DEF Run, States
<1>3. CASE s[i].does # "nothing"
  <2>1. s[i].after \in Operators
    BY <1>1 DEF Segments
  <2>2. OkAfter(s, out, r, i) \in BOOLEAN
    BY GoesIs DEF OkAfter, States
  <2>3. (IF Goes(r) THEN r.ran \cup {i} ELSE r.ran) \in SUBSET Nat
    BY DEF States
  <2>4. r.valid \in BOOLEAN
    BY DEF States
  <2>5. Gone(s, r, i) \in {"no", "list", "shell"}
    BY DEF Gone, States
  <2> HIDE DEF Gone
  <2> QED BY <1>3, <2>1, <2>2, <2>3, <2>4, <2>5, GoesIs DEF Run, States, OkAfter
<1> QED BY <1>2, <1>3

\* Every place of a trace is a state of the shell.
LEMMA TraceType ==
  ASSUME NEW s \in Seq(Segments), NEW out, Succeeds(s, out)
  PROVE  \A i \in 0..Len(s) : Trace(s, out)[i] \in States
<1> DEFINE S == {i \in 0..Len(s) : Trace(s, out)[i] \in States}
<1>1. 0 \in S
  <2>1. Start \in States
    BY DEF Start, States, Operators
  <2> QED BY <2>1, TraceIs
<1>2. ASSUME NEW i \in 0..Len(s), i < Len(s), i \in S PROVE i + 1 \in S
  <2>1. i + 1 \in 1..Len(s) /\ (i + 1) - 1 = i
    BY <1>2
  <2>2. Trace(s, out)[i + 1] = Run(s, out, Trace(s, out)[i], i + 1)
    BY <2>1, TraceIs
  <2> QED BY <1>2, <2>1, <2>2, RunType DEF Succeeds
<1> HIDE DEF S
<1>3. \A i \in 0..Len(s) : i \in S
  BY <1>1, <1>2, Places
<1> QED BY <1>3 DEF S

\* What a place with a command does, and one without.
Stepped(s, out, r, t, i) ==
  /\ r \in States /\ t \in States
  /\ s[i].does = "nothing" =>
       /\ t.op = r.op /\ t.go = r.go /\ t.ok = r.ok /\ t.ran = r.ran /\ t.gone = r.gone
       /\ t.valid = (r.valid /\ Continues(r.op, s[i].after))
  /\ s[i].does # "nothing" =>
       /\ t.op = s[i].after /\ t.go = Goes(r) /\ t.valid = r.valid
       /\ t.ok = OkAfter(s, out, r, i)
       /\ t.gone = Gone(s, r, i)
       /\ t.ran = IF Goes(r) THEN r.ran \cup {i} ELSE r.ran

\* What one command of a trace changes.
LEMMA TraceStep ==
  ASSUME NEW s \in Seq(Segments), NEW out, Succeeds(s, out), NEW i \in 1..Len(s)
  PROVE  Stepped(s, out, Trace(s, out)[i - 1], Trace(s, out)[i], i)
<1> DEFINE r == Trace(s, out)[i - 1]
           t == Trace(s, out)[i]
<1> SUFFICES Stepped(s, out, r, t, i)
  OBVIOUS
<1>1. t = Run(s, out, r, i)
  BY TraceIs
<1>2. r \in States /\ t \in States
  <2>1. i - 1 \in 0..Len(s) /\ i \in 0..Len(s)
    OBVIOUS
  <2> QED BY <2>1, TraceType
<1>3. CASE s[i].does = "nothing"
  <2>1. t = [r EXCEPT !.valid = r.valid /\ Continues(r.op, s[i].after)]
    BY <1>1, <1>3 DEF Run
  <2> HIDE DEF r, t
  <2>2. DOMAIN r = {"op", "go", "ok", "ran", "gone", "valid"}
    BY <1>2 DEF States
  <2>3. /\ t.op = r.op /\ t.go = r.go /\ t.ok = r.ok /\ t.ran = r.ran /\ t.gone = r.gone
        /\ t.valid = (r.valid /\ Continues(r.op, s[i].after))
    BY <2>1, <2>2
  <2> QED BY <1>2, <1>3, <2>3 DEF Stepped
<1>4. CASE s[i].does # "nothing"
  <2>1. t = [op |-> s[i].after, go |-> Goes(r),
             ok |-> OkAfter(s, out, r, i),
             ran |-> IF Goes(r) THEN r.ran \cup {i} ELSE r.ran,
             gone |-> Gone(s, r, i), valid |-> r.valid]
    BY <1>1, <1>4 DEF Run, OkAfter
  <2> HIDE DEF r, t
  <2> QED BY <1>2, <1>4, <2>1 DEF Stepped
<1> HIDE DEF r, t
<1> QED BY <1>2, <1>3, <1>4 DEF Stepped
-----------------------------------------------------------------------------
(* A script that ends well.                                                *)

\* `||` was met, and behind it a pipeline or line breaks only.
FromOr(s, k, i) ==
  /\ k \in 1..i /\ s[k].after = "||"
  /\ \A l \in k + 1..i : s[l].after = "|" \/ s[l].does = "nothing"

\* A shell has ended only behind a command that ends it.
LEMMA EndedByExit ==
  ASSUME NEW s \in Seq(Segments), NEW out, Succeeds(s, out)
  PROVE  \A i \in 0..Len(s) :
           Trace(s, out)[i].gone # "no" => \E k \in 1..i : s[k].does = "exit"
<1> DEFINE T == Trace(s, out)
           Ended(i) == T[i].gone # "no" => \E k \in 1..i : s[k].does = "exit"
           S == {i \in 0..Len(s) : Ended(i)}
<1> HIDE DEF T
<1>1. 0 \in S
  <2>1. Start.gone = "no"
    BY DEF Start
  <2>2. T[0] = Start
    BY TraceIs DEF T
  <2>3. Ended(0)
    BY <2>1, <2>2, Zenon
  <2> QED BY <2>3
<1>2. ASSUME NEW i \in 0..Len(s), i < Len(s), i \in S PROVE i + 1 \in S
  <2> DEFINE j == i + 1
  <2>1. j \in 1..Len(s) /\ j - 1 = i /\ j \in 0..Len(s) /\ j \in 1..j /\ 1..i \subseteq 1..j
    BY <1>2
  <2> HIDE DEF j
  <2>2. Stepped(s, out, T[i], T[j], j)
    BY <2>1, TraceStep DEF T
  <2>3. T[j].gone # "no" => T[i].gone # "no" \/ s[j].does = "exit"
    <3>1. CASE s[j].does = "nothing"
      BY <2>2, <3>1 DEF Stepped
    <3>2. CASE s[j].does # "nothing"
      BY <2>2, <3>2 DEF Stepped, Gone
    <3> QED BY <3>1, <3>2
  <2>4. Ended(j)
    BY <1>2, <2>1, <2>3
  <2> QED BY <2>1, <2>4 DEF j
<1> HIDE DEF S
<1>3. \A i \in 0..Len(s) : i \in S
  BY <1>1, <1>2, Places
<1> QED BY <1>3 DEF S, T

\* A shell that has not ended skips a command although nothing failed only behind `||`.
LEMMA SkippedBehindOr ==
  ASSUME NEW s \in Seq(Segments), NEW out, Succeeds(s, out)
  PROVE  \A i \in 0..Len(s) :
           LET r == Trace(s, out)[i]
           IN  r.ok /\ ~Goes(r) => \/ \E k \in 1..i : s[k].does = "exit"
                                  \/ \E k \in 1..i : FromOr(s, k, i)
<1> DEFINE T == Trace(s, out)
           Skips(i) == T[i].op = "||" \/ (T[i].op = "|" /\ ~T[i].go /\ T[i].ok)
           Behind(i) == \/ \E k \in 1..i : s[k].does = "exit"
                        \/ \E k \in 1..i : FromOr(s, k, i)
           S == {i \in 0..Len(s) : Skips(i) => Behind(i)}
<1> HIDE DEF T
<1>1. 0 \in S
  <2>1. T[0].op = ";"
    <3>1. Start.op = ";"
      BY DEF Start
    <3>2. T[0] = Start
      BY TraceIs DEF T
    <3> QED BY <3>1, <3>2, Zenon
  <2>2. ~Skips(0)
    BY <2>1
  <2>3. 0 \in 0..Len(s)
    OBVIOUS
  <2> HIDE DEF Skips, Behind
  <2> QED BY <2>2, <2>3
<1>2. ASSUME NEW i \in 0..Len(s), i < Len(s), i \in S PROVE i + 1 \in S
  <2> DEFINE j == i + 1
  <2>1. j \in 1..Len(s) /\ j - 1 = i /\ j \in 0..Len(s)
    BY <1>2
  <2> HIDE DEF j
  <2> SUFFICES ASSUME Skips(j) PROVE Behind(j)
    BY <2>1 DEF j
  <2>7. ASSUME NEW k \in 1..i, s[k].does = "exit" PROVE Behind(j)
    BY <2>1, <2>7
  <2>2. /\ T[i] \in States /\ T[j] \in States
        /\ s[j].does = "nothing" =>
              /\ T[j].op = T[i].op /\ T[j].go = T[i].go /\ T[j].ok = T[i].ok
        /\ s[j].does # "nothing" =>
              /\ T[j].op = s[j].after /\ T[j].go = Goes(T[i])
              /\ T[j].ok = OkAfter(s, out, T[i], j)
    <3>1. Stepped(s, out, T[i], T[j], j)
      BY <2>1, TraceStep DEF T
    <3> QED BY <3>1 DEF Stepped
  <2>3. ASSUME Skips(i), s[j].after = "|" \/ s[j].does = "nothing"
        PROVE  Behind(j)
    <3>3. Behind(i)
      BY <1>2, <2>3
    <3>4. ASSUME NEW k \in 1..i, FromOr(s, k, i) PROVE Behind(j)
      <4>1. k \in 1..j /\ \A l \in k + 1..j : l \in k + 1..i \/ l = j
        BY <2>1
      <4> QED BY <2>3, <3>4, <4>1 DEF FromOr
    <3> QED BY <2>7, <3>3, <3>4
  <2>4. CASE s[j].does = "nothing"
    BY <2>2, <2>3, <2>4
  <2>5. CASE s[j].does # "nothing" /\ s[j].after = "||"
    <3>1. FromOr(s, j, j)
      BY <2>1, <2>5 DEF FromOr
    <3> QED BY <2>1, <3>1
  <2>6. CASE s[j].does # "nothing" /\ s[j].after # "||"
    <3>1. s[j].after = "|" /\ ~Goes(T[i]) /\ T[i].ok
      BY <2>2, <2>6 DEF OkAfter
    <3>2. CASE T[i].gone = "no"
      <4>1. Skips(i)
        BY <3>1, <3>2 DEF Goes
      <4> QED BY <2>3, <3>1, <4>1
    <3>3. CASE T[i].gone # "no"
      <4>1. PICK k \in 1..i : s[k].does = "exit"
        BY <3>3, EndedByExit DEF T
      <4> QED BY <2>7, <4>1
    <3> QED BY <3>2, <3>3
  <2> QED BY <2>4, <2>5, <2>6
<1> HIDE DEF S
<1>3. \A i \in 0..Len(s) : i \in S
  BY <1>1, <1>2, Places
<1>4. ASSUME NEW i \in 0..Len(s), T[i].ok, ~Goes(T[i]) PROVE Behind(i)
  <2>1. CASE T[i].gone = "no"
    <3>1. Skips(i)
      BY <1>4, <2>1 DEF Goes
    <3> QED BY <1>3, <3>1 DEF S
  <2>2. CASE T[i].gone # "no"
    BY <2>2, EndedByExit DEF T
  <2> QED BY <2>1, <2>2
<1> QED BY <1>4 DEF T

\* Behind a command that only `&&` follows, a failure stays one to the end.
LEMMA FailureStays ==
  ASSUME NEW s \in Seq(Segments), NEW out, Succeeds(s, out), NEW i \in 1..Len(s),
         s[i].does # "nothing", \A j \in i..Len(s) : s[j].after \in {"&&", "end"},
         \A j \in i..Len(s) : s[j].after = "end" => j = Len(s),
         Trace(s, out)[Len(s)].valid, Trace(s, out)[Len(s)].ok
  PROVE  /\ Trace(s, out)[i].ok
         /\ Trace(s, out)[i].ran \subseteq Trace(s, out)[Len(s)].ran
<1> DEFINE T == Trace(s, out)
           n == Len(s)
           Fine(j) == /\ s[j].does # "nothing" /\ T[j].op = s[j].after
                      /\ T[j].ok => T[i].ok
                      /\ T[i].ran \subseteq T[j].ran
           S == {j \in 0..n : T[j].valid => Fine(j)}
<1> HIDE DEF T
<1>1. i \in S
  <2>1. Stepped(s, out, T[i - 1], T[i], i)
    BY TraceStep DEF T
  <2> QED BY <2>1 DEF Stepped
<1>2. ASSUME NEW j \in i..n, j < n, j \in S PROVE j + 1 \in S
  <2> DEFINE k == j + 1
  <2>1. k \in 1..n /\ k - 1 = j /\ k \in 0..n /\ k \in i..n /\ j # n
    BY <1>2
  <2> HIDE DEF k
  <2> SUFFICES ASSUME T[k].valid PROVE Fine(k)
    BY <2>1 DEF k
  <2>2. /\ T[j] \in States /\ T[k] \in States
        /\ s[k].does = "nothing" =>
             T[k].valid = (T[j].valid /\ Continues(T[j].op, s[k].after))
        /\ s[k].does # "nothing" =>
             /\ T[k].op = s[k].after /\ T[k].valid = T[j].valid
             /\ T[k].ok = OkAfter(s, out, T[j], k)
             /\ T[k].ran = IF Goes(T[j]) THEN T[j].ran \cup {k} ELSE T[j].ran
    <3>1. Stepped(s, out, T[j], T[k], k)
      BY <2>1, TraceStep DEF T
    <3> QED BY <3>1 DEF Stepped
  <2>3. Fine(j)
    BY <1>2, <2>2
  <2>4. T[j].op = "&&" /\ s[k].after \in {"&&", "end"}
    BY <2>1, <2>3
  <2>5. s[k].does # "nothing"
    BY <2>2, <2>4 DEF Continues
  <2>6. T[k].ok => T[j].ok
    BY <2>2, <2>4, <2>5 DEF Goes, OkAfter
  <2> QED BY <2>2, <2>3, <2>5, <2>6
<1> HIDE DEF S
<1>3. n \in S
  <2>1. n \in Nat /\ i \in Nat /\ n \in i..n
    OBVIOUS
  <2> QED BY <1>1, <1>2, <2>1, Places
<1> QED BY <1>3 DEF S, T

\* What the check calls unmasked ran and succeeded when its script ends well.
LEMMA UnmaskedRuns ==
  ASSUME NEW s, IsChain(s), IsScript(s), NEW out, Succeeds(s, out), Shell(s, out).ok,
         NEW i \in Running(s, {"prefetch", "guard"}), ~Masked(s, i), ~Overlooked(s, i)
  PROVE  i \in Shell(s, out).ran /\ out[i]
<1> DEFINE T == Trace(s, out)
           n == Len(s)
<1>1. /\ s \in Seq(Segments) /\ n \in Nat /\ i \in 1..n
      /\ s[i].does \in {"prefetch", "guard"}
      /\ \A j \in 1..n : s[j].after = "end" => j = n
  BY DEF IsScript, Running
<1>2. \A j \in i..n : s[j].after \in {"&&", "end"}
  BY DEF Masked, After
<1>3. T[n].valid /\ T[n].ok /\ Shell(s, out).ran = T[n].ran
  BY Zenon DEF Shell
<1> HIDE DEF T
<1>4. T[i].ok /\ T[i].ran \subseteq T[n].ran
  <2>1. s[i].does # "nothing" /\ \A j \in i..n : s[j].after = "end" => j = n
    BY <1>1
  <2> QED BY <1>1, <1>2, <1>3, <2>1, FailureStays DEF T
<1>5. /\ T[i].ok = (IF Goes(T[i - 1]) THEN out[i] ELSE T[i - 1].ok)
      /\ Goes(T[i - 1]) => i \in T[i].ran
      /\ T[i - 1] \in States /\ T[i] \in States
  <2>1. Stepped(s, out, T[i - 1], T[i], i)
    BY <1>1, TraceStep DEF T
  <2>2. s[i].does # "nothing" /\ s[i].after # "&"
    BY <1>1, <1>2
  <2>3. out[i] \in BOOLEAN
    BY <1>1 DEF Succeeds
  <2>4. Goes(T[i - 1]) => T[i - 1].gone = "no"
    BY DEF Goes
  <2> QED BY <2>1, <2>2, <2>3, <2>4 DEF Stepped, States, OkAfter
<1>6. CASE Goes(T[i - 1])
  BY <1>3, <1>4, <1>5, <1>6
<1>7. CASE ~Goes(T[i - 1])
  <2>1. T[i - 1].ok
    BY <1>4, <1>5, <1>7
  <2>2. i - 1 \in 0..n
    BY <1>1
  <2>6. \A k \in 1..i - 1 : s[k].does # "exit"
    BY DEF Overlooked
  <2>3. PICK k \in 1..i - 1 : FromOr(s, k, i - 1)
    BY <1>1, <1>7, <2>1, <2>2, <2>6, SkippedBehindOr DEF T
  <2>4. CASE k = i - 1
    <3>1. Before(s, i) = "||"
      BY <1>1, <2>3, <2>4 DEF FromOr, Before, After
    <3> QED BY <3>1 DEF Masked
  <2>5. CASE k # i - 1
    <3>1. k \in 1..(i - 2)
      BY <1>1, <2>3, <2>5
    <3> QED BY <2>3, <3>1 DEF FromOr, Overlooked
  <2> QED BY <2>4, <2>5
<1> QED BY <1>6, <1>7
-----------------------------------------------------------------------------
(* A wired chain.                                                          *)

\* The argument of NothingUnwired: the scripts are scripts, so the shell does what is proved of it.
LEMMA WiredShips == IsSite(site) => NothingShipsUnwired
<1> DEFINE pre == Commands(site.pre)
           build == Commands(site.build)
<1> SUFFICES ASSUME IsSite(site), Chained(site.pre, site.build, Mount(site)),
                    \A s \in {pre, build} :
                      \A i \in Running(s, {"prefetch", "guard"}) : ~Overlooked(s, i),
                    NEW p \in Outcomes(site, pre), NEW b \in Outcomes(site, build),
                    Shell(pre, p).ok, Shell(build, b).ok
             PROVE  Verified(site) /\ RanAll(pre, p) /\ RanAll(build, b)
  BY DEF NothingShipsUnwired
<1>1. ASSUME NEW s \in {site.pre, site.build}, NEW out \in Outcomes(site, Commands(s)),
             Shell(Commands(s), out).ok
      PROVE  RanAll(Commands(s), out)
  <2>1. CASE ~IsChain(s)
    BY <2>1 DEF Commands, RanAll, Running
  <2>2. CASE IsChain(s)
    <3>1. Commands(s) = s /\ IsScript(s)
      BY <2>2 DEF Commands, IsSite
    <3>2. Succeeds(s, out)
      BY <2>2, <3>1 DEF Outcomes, Succeeds, IsScript
    <3>3. ASSUME NEW i \in Running(s, {"prefetch", "guard"}) PROVE ~Masked(s, i)
      <4>1. i \in Running(s, {"prefetch"}) \/ i \in Running(s, {"guard"})
        BY <3>3 DEF Running
      <4> QED BY <4>1 DEF Chained, PrefetchHolds, GuardHolds
    <3>4. \A i \in Running(s, {"prefetch", "guard"}) : ~Overlooked(s, i)
      BY <3>1
    <3> QED BY <1>1, <2>2, <3>1, <3>2, <3>3, <3>4, UnmaskedRuns DEF RanAll
  <2> QED BY <2>1, <2>2
<1>2. RanAll(pre, p) /\ RanAll(build, b)
  BY <1>1
<1>3. ASSUME NEW s \in {site.pre, site.build}, NEW out \in Outcomes(site, Commands(s)),
             RanAll(Commands(s), out), NEW g \in Running(s, {"guard"})
      PROVE  Verified(site)
  <2>1. Commands(s) = s /\ g \in DOMAIN s /\ s[g].does = "guard"
        /\ g \in Running(s, {"prefetch", "guard"})
    BY <1>3 DEF Running, Commands
  <2>2. out[g] /\ CanSucceed(site, s[g])
    BY <1>3, <2>1 DEF RanAll, Outcomes
  <2>3. s[g].at = Here
    BY DEF Chained, GuardHolds
  <2> QED BY <2>1, <2>2, <2>3, PrebuildAssumption DEF CanSucceed
<1>4. \/ \E g \in Running(site.pre, {"guard"}) : TRUE
      \/ \E g \in Running(site.build, {"guard"}) : TRUE
  BY DEF Chained
<1> QED BY <1>2, <1>3, <1>4
-----------------------------------------------------------------------------
(* The scripts a person writes.                                            *)

\* A script that can be split.
IsWhole(c) ==
  c \in Seq(Segments) /\ c # <<>> /\ \A i \in DOMAIN c : c[i].after = "end" <=> i = Len(c)

\* Commands that something follows.
IsOpen(c) == c \in Seq(Segments) /\ \A i \in DOMAIN c : c[i].after # "end"

\* Commands that go on when they succeed.
IsJoined(c) == c \in Seq(Segments) /\ \A i \in DOMAIN c : c[i].after = "&&"

IsKept(f, c, n) ==
  f = [i \in 0..n |->
         IF i = 0 THEN <<>>
         ELSE IF c[i].does \in {"step", "compile"}
         THEN Append(f[i - 1], [c[i] EXCEPT !.after = "&&"])
         ELSE f[i - 1]]

\* The same for the commands a person keeps: the function that collects them exists.
LEMMA KeptExists ==
  ASSUME NEW c, NEW k \in Nat
  PROVE  \E f : IsKept(f, c, k)
<1> DEFINE S == {n \in Nat : \E f : IsKept(f, c, n)}
<1>1. 0 \in S
  <2>1. IsKept([i \in 0..0 |-> <<>>], c, 0)
    BY DEF IsKept
  <2> QED BY <2>1
<1>2. ASSUME NEW n \in 0..k, n \in S PROVE n + 1 \in S
  <2>1. PICK f : IsKept(f, c, n)
    BY <1>2
  <2> DEFINE Next1(h, i) == IF c[i].does \in {"step", "compile"}
                            THEN Append(h, [c[i] EXCEPT !.after = "&&"]) ELSE h
             g == [i \in 0..n + 1 |-> IF i <= n THEN f[i] ELSE Next1(f[n], n + 1)]
  <2> HIDE DEF Next1
  <2>2. ASSUME NEW i \in 0..n + 1
        PROVE  g[i] = IF i = 0 THEN <<>> ELSE Next1(g[i - 1], i)
    <3>1. CASE i <= n
      <4>1. i \in 0..n /\ i <= n + 1
        BY <3>1
      <4>2. f[i] = IF i = 0 THEN <<>> ELSE Next1(f[i - 1], i)
        BY <2>1, <4>1 DEF IsKept, Next1
      <4>3. i # 0 => g[i - 1] = f[i - 1]
        BY <4>1
      <4> QED BY <3>1, <4>2, <4>3
    <3>2. CASE i = n + 1
      BY <3>2
    <3> QED BY <3>1, <3>2
  <2> HIDE DEF g
  <2>3. g = [i \in 0..n + 1 |-> g[i]]
    BY DEF g
  <2>4. g = [i \in 0..n + 1 |-> IF i = 0 THEN <<>> ELSE Next1(g[i - 1], i)]
    BY <2>2, <2>3
  <2>5. IsKept(g, c, n + 1)
    BY <2>4 DEF IsKept, Next1
  <2> QED BY <2>5
<1> HIDE DEF S
<1>3. k \in S
  BY <1>1, <1>2, Places
<1> QED BY <1>3 DEF S

\* What a person keeps goes on when it succeeds, command by command.
LEMMA KeptIs ==
  ASSUME NEW s, IsScript(s)
  PROVE  IsJoined(Kept(s))
<1> DEFINE c == Commands(s)
<1>1. c \in Seq(Segments)
  BY DEF Commands, IsScript
<1> HIDE DEF c
<1>2. PICK f : IsKept(f, c, Len(c))
  <2>1. Len(c) \in Nat
    BY <1>1
  <2>2. \A k \in Nat : \E f : IsKept(f, c, k)
    BY KeptExists
  <2> QED BY <2>1, <2>2, Zenon
<1>3. \E f1 : IsKept(f1, c, Len(c)) /\ Kept(s) = f1[Len(c)]
  BY <1>2 DEF IsKept, Kept, c
<1>4. PICK f1 : IsKept(f1, c, Len(c)) /\ Kept(s) = f1[Len(c)]
  BY <1>3
<1> DEFINE S == {i \in 0..Len(c) : IsJoined(f1[i])}
<1>5. 0 \in S
  <2>1. f1[0] = <<>> /\ 0 \in 0..Len(c)
    BY <1>1, <1>4 DEF IsKept
  <2>2. IsJoined(<<>>)
    BY DEF IsJoined
  <2> QED BY <2>1, <2>2
<1>6. ASSUME NEW i \in 0..Len(c), i < Len(c), i \in S PROVE i + 1 \in S
  <2> DEFINE j == i + 1
  <2>1. j \in 1..Len(c) /\ j - 1 = i /\ j \in 0..Len(c) /\ j # 0
    BY <1>1, <1>6
  <2> HIDE DEF j
  <2> DEFINE d == [c[j] EXCEPT !.after = "&&"]
  <2>2. f1[j] = IF c[j].does \in {"step", "compile"} THEN Append(f1[i], d) ELSE f1[i]
    <3>1. f1[j] = IF j = 0 THEN <<>>
                  ELSE IF c[j].does \in {"step", "compile"} THEN Append(f1[j - 1], d) ELSE f1[j - 1]
      BY <1>4, <2>1, Zenon DEF IsKept
    <3> HIDE DEF d
    <3> QED BY <2>1, <3>1
  <2>3. d \in Segments /\ d.after = "&&"
    <3>1. c[j] \in Segments
      BY <1>1, <2>1
    <3> QED BY <3>1 DEF Segments, Operators
  <2> HIDE DEF d
  <2>4. IsJoined(f1[i])
    BY <1>6
  <2>5. IsJoined(Append(f1[i], d))
    BY <2>3, <2>4 DEF IsJoined
  <2>6. IsJoined(f1[j])
    BY <2>2, <2>4, <2>5
  <2> QED BY <2>1, <2>6 DEF j
<1> HIDE DEF S
<1>7. Len(c) \in S
  <2>1. Len(c) \in Nat /\ Len(c) \in 0..Len(c)
    BY <1>1
  <2> QED BY <1>5, <1>6, <2>1, Places
<1> QED BY <1>4, <1>7 DEF S

\* Closed at its end, what is kept is a script or none.
LEMMA ClosedIs ==
  ASSUME NEW c, IsJoined(c)
  PROVE  IsScript(Closed(c))
<1>1. CASE c = <<>>
  BY <1>1 DEF Closed, IsScript, IsChain
<1>2. CASE c # <<>>
  <2> DEFINE d == [c EXCEPT ![Len(c)].after = "end"]
  <2>1. Closed(c) = d
    BY <1>2 DEF Closed
  <2>2. c \in Seq(Segments) /\ Len(c) \in DOMAIN c
    BY <1>2 DEF IsJoined
  <2>3. d \in Seq(Segments) /\ Len(d) = Len(c) /\ d # <<>>
    <3>1. c[Len(c)] \in Segments
      BY <2>2
    <3>2. [c[Len(c)] EXCEPT !.after = "end"] \in Segments
      BY <3>1 DEF Segments, Operators
    <3> DEFINE e == [c[Len(c)] EXCEPT !.after = "end"]
    <3>3. d = [c EXCEPT ![Len(c)] = e]
      OBVIOUS
    <3> HIDE DEF e, d
    <3>4. d \in Seq(Segments) /\ Len(d) = Len(c)
      BY <2>2, <3>2, <3>3 DEF e
    <3> QED BY <2>2, <3>4
  <2>4. \A i \in DOMAIN d : d[i].after = IF i = Len(c) THEN "end" ELSE "&&"
    BY <2>2 DEF IsJoined, Segments
  <2> HIDE DEF d
  <2>5. \A i \in DOMAIN d : d[i].after = "end" <=> i = Len(d)
    BY <2>3, <2>4
  <2> QED BY <2>1, <2>3, <2>5 DEF IsScript
<1> QED BY <1>1, <1>2

\* The fragment is a script of two commands.
LEMMA FragmentIs ==
  ASSUME NEW m \in Mounts
  PROVE  /\ Fragment(m) \in Seq(Segments) /\ Len(Fragment(m)) = 2
         /\ Fragment(m)[1] = Command("prefetch", m, "&&")
         /\ Fragment(m)[2] = Command("guard", Here, "end")
         /\ IsWhole(Fragment(m))
         /\ IsJoined([Fragment(m) EXCEPT ![2].after = "&&"])
<1>1. Command("prefetch", m, "&&") \in Segments /\ Command("guard", Here, "end") \in Segments
      /\ Command("guard", Here, "&&") \in Segments
  BY DEF Command, Segments, Kinds, Operators
<1>2. /\ Fragment(m) \in Seq(Segments) /\ Len(Fragment(m)) = 2
      /\ Fragment(m)[1] = Command("prefetch", m, "&&")
      /\ Fragment(m)[2] = Command("guard", Here, "end")
  BY <1>1 DEF Fragment
<1>3. IsWhole(Fragment(m))
  <2>1. Fragment(m)[1].after = "&&" /\ Fragment(m)[2].after = "end"
    BY <1>2 DEF Command
  <2>2. Fragment(m) # <<>> /\ \A i \in DOMAIN Fragment(m) : i = 1 \/ i = 2
    BY <1>2
  <2> QED BY <1>2, <2>1, <2>2 DEF IsWhole
<1>4. [Fragment(m) EXCEPT ![2].after = "&&"] = <<Command("prefetch", m, "&&"), Command("guard", Here, "&&")>>
  BY DEF Fragment, Command
<1>5. IsJoined(<<Command("prefetch", m, "&&"), Command("guard", Here, "&&")>>)
  BY <1>1 DEF IsJoined, Command
<1> QED BY <1>2, <1>3, <1>4, <1>5

\* Joined commands stay joined behind one another.
LEMMA JoinedConcat ==
  ASSUME NEW c, IsJoined(c), NEW d, IsJoined(d)
  PROVE  IsJoined(c \o d)
  BY DEF IsJoined

\* Open commands with a script behind them are a script.
LEMMA OpenConcat ==
  ASSUME NEW c, IsOpen(c), NEW d, IsWhole(d)
  PROVE  IsWhole(c \o d)
<1>1. c \in Seq(Segments) /\ d \in Seq(Segments) /\ d # <<>> /\ Len(d) > 0
  BY DEF IsOpen, IsWhole
<1>2. c \o d \in Seq(Segments) /\ c \o d # <<>> /\ Len(c \o d) = Len(c) + Len(d)
  BY <1>1
<1>3. ASSUME NEW i \in DOMAIN (c \o d)
      PROVE  (c \o d)[i].after = "end" <=> i = Len(c \o d)
  <2>1. CASE i <= Len(c)
    <3>1. (c \o d)[i] = c[i] /\ i \in DOMAIN c
      BY <1>1, <1>2, <2>1
    <3> QED BY <1>1, <1>2, <2>1, <3>1 DEF IsOpen
  <2>2. CASE i > Len(c)
    <3>1. (c \o d)[i] = d[i - Len(c)] /\ i - Len(c) \in DOMAIN d
      BY <1>1, <1>2, <2>2
    <3> QED BY <1>1, <1>2, <3>1 DEF IsWhole
  <2> QED BY <1>1, <2>1, <2>2
<1> QED BY <1>2, <1>3 DEF IsWhole

\* What is appended to is a script that can be split and names nothing of the guard.
LEMMA HookedIs ==
  ASSUME NEW pre, IsScript(pre), NEW build, NEW m \in Mounts, NEW p \in Hooked(pre, build, m)
  PROVE  /\ IsWhole(p)
         /\ \/ p = Fragment(m) /\ (pre = None \/ (IsChain(pre) /\ IsWhole(pre) /\ Blank(pre)))
            \/ /\ IsChain(pre) /\ IsWhole(pre)
               /\ p = [pre EXCEPT ![Len(pre)].after = "&&"] \o Fragment(m)
<1>1. ~NamesTheGuard(pre)
  BY DEF Hooked
<1>2. pre = None \/ (IsChain(pre) /\ IsWhole(pre))
  BY <1>1 DEF NamesTheGuard, IsChain, IsScript, IsWhole
<1>3. CASE pre = None \/ Blank(pre)
  <2>1. p = Fragment(m)
    BY <1>1, <1>3 DEF Hooked
  <2> QED BY <1>2, <1>3, <2>1, FragmentIs
<1>4. CASE pre # None /\ ~Blank(pre)
  <2> DEFINE c == [pre EXCEPT ![Len(pre)].after = "&&"]
  <2>1. p = c \o Fragment(m)
    BY <1>1, <1>4 DEF Hooked
  <2>2. pre \in Seq(Segments) /\ Len(pre) \in DOMAIN pre
    BY <1>2, <1>4 DEF IsWhole
  <2>3. [pre[Len(pre)] EXCEPT !.after = "&&"] \in Segments
    <3>1. pre[Len(pre)] \in Segments
      BY <2>2
    <3> QED BY <3>1 DEF Segments, Operators
  <2>4. c \in Seq(Segments) /\ Len(c) = Len(pre)
    <3> DEFINE e == [pre[Len(pre)] EXCEPT !.after = "&&"]
    <3>1. c = [pre EXCEPT ![Len(pre)] = e]
      OBVIOUS
    <3> HIDE DEF c, e
    <3> QED BY <2>2, <2>3, <3>1 DEF e
  <2>5. \A i \in DOMAIN c : c[i].after # "end"
    <3>1. \A i \in DOMAIN pre : c[i].after = IF i = Len(pre) THEN "&&" ELSE pre[i].after
      BY <2>2 DEF Segments
    <3> HIDE DEF c
    <3> QED BY <1>2, <1>4, <2>2, <2>4, <3>1 DEF IsWhole
  <2>6. IsOpen(c)
    BY <2>4, <2>5 DEF IsOpen
  <2> HIDE DEF c
  <2>7. IsWhole(p)
    BY <2>1, <2>6, OpenConcat, FragmentIs
  <2> QED BY <1>2, <1>4, <2>1, <2>7 DEF c
<1> QED BY <1>3, <1>4
-----------------------------------------------------------------------------
(* What install makes of a site.                                           *)

\* The mount install works with is a mount.
LEMMA MountIs ==
  ASSUME NEW s, IsSite(s)
  PROVE  Mount(s) \in Mounts
  BY InstallAssumption DEF IsSite, Mount

\* The site s after some of the edits: its scripts are as they were, or the
\* fragment was appended and the chain is wired.
Edited(s, t) ==
  /\ IsSite(t) /\ t.declared = s.declared /\ t.at = s.at /\ t.build = s.build
  /\ t.pre # s.pre => /\ t.pre \in Hooked(s.pre, s.build, Mount(s))
                      /\ Chained(t.pre, t.build, Mount(s))

\* Writing a file leaves a site.
LEMMA FileEdit ==
  ASSUME NEW t, IsSite(t), NEW e, NEW v, NEW u, u = [t EXCEPT !.file[e] = v]
  PROVE  /\ IsSite(u) /\ u.declared = t.declared /\ u.at = t.at
         /\ u.pre = t.pre /\ u.build = t.build
<1>1. u = [t EXCEPT !.file = [t.file EXCEPT ![e] = v]]
  OBVIOUS
<1> QED BY <1>1 DEF IsSite

\* So does another prebuild that is a script.
LEMMA PreEdit ==
  ASSUME NEW t, IsSite(t), NEW p, IsScript(p), NEW u, u = [t EXCEPT !.pre = p]
  PROVE  /\ IsSite(u) /\ u.declared = t.declared /\ u.at = t.at
         /\ u.pre = p /\ u.build = t.build
  BY DEF IsSite

\* What an applier makes differs in one file, or in the prebuild, which Hooked gives.
LEMMA ApplyIs ==
  ASSUME NEW t, NEW e, NEW u \in Apply(t, e)
  PROVE  \/ \E v : u = [t EXCEPT !.file[e] = v]
         \/ e = "prebuild-hook" /\ \E p \in Hooked(t.pre, t.build, Mount(t)) : u = [t EXCEPT !.pre = p]
  BY DEF Apply, InsertAbsent, ByHand, Lists, MountFiles

\* A turn of the loop ends with a site, and whatever it ends with is an edit of the first.
LEMMA TurnKeeps ==
  ASSUME NEW s, IsSite(s), NEW t, Edited(s, t), NEW e
  PROVE  Turn(t, e) # {} /\ \A u \in Turn(t, e) : Edited(s, u)
<1>1. CASE Written(t, e) = {}
  BY <1>1 DEF Turn
<1>2. CASE Written(t, e) # {}
  <2>1. Turn(t, e) = Written(t, e)
    BY <1>2 DEF Turn
  <2> SUFFICES ASSUME NEW u \in Written(t, e) PROVE Edited(s, u)
    BY <1>2, <2>1
  <2>2. ~Present(t, e) /\ u \in Apply(t, e) /\ Present(u, e)
    BY DEF Written
  <2>3. ASSUME NEW v, u = [t EXCEPT !.file[e] = v] PROVE Edited(s, u)
    BY <2>3, FileEdit DEF Edited
  <2>4. ASSUME e = "prebuild-hook", NEW p \in Hooked(t.pre, t.build, Mount(t)), u = [t EXCEPT !.pre = p]
        PROVE  Edited(s, u)
    <3>1. Mount(t) = Mount(s) /\ Mount(s) \in Mounts /\ IsScript(t.pre)
      BY MountIs DEF Edited, Mount, IsSite
    <3>2. IsScript(p)
      <4>1. IsWhole(p)
        BY <2>4, <3>1, HookedIs
      <4> QED BY <4>1 DEF IsScript, IsWhole
    <3>3. IsSite(u) /\ u.declared = t.declared /\ u.at = t.at /\ u.pre = p /\ u.build = t.build
      BY <2>4, <3>2, PreEdit DEF Edited
    <3>4. Mount(u) = Mount(s)
      BY <3>1, <3>3 DEF Mount
    <3>5. Chained(p, u.build, Mount(s)) /\ ~Chained(t.pre, t.build, Mount(s))
      BY <2>2, <2>4, <3>1, <3>3, <3>4 DEF Present, Lists, MountFiles, Generated
    <3>6. t.pre = s.pre
      BY <3>5 DEF Edited
    <3> QED BY <2>4, <3>1, <3>3, <3>5, <3>6 DEF Edited
  <2> QED BY <2>2, <2>3, <2>4, ApplyIs
<1> QED BY <1>1, <1>2

IsLoop(f, s, n) ==
  f = [i \in 0..n |-> IF i = 0 THEN {s} ELSE UNION {Turn(t, Edits[i]) : t \in f[i - 1]}]

\* The function that goes through the edits exists.
LEMMA LoopExists ==
  ASSUME NEW s, NEW k \in Nat
  PROVE  \E f : IsLoop(f, s, k)
<1> DEFINE S == {n \in Nat : \E f : IsLoop(f, s, n)}
           Turns(sites, i) == UNION {Turn(t, Edits[i]) : t \in sites}
<1> HIDE DEF Turns
<1>1. 0 \in S
  <2>1. IsLoop([i \in 0..0 |-> {s}], s, 0)
    BY DEF IsLoop
  <2> QED BY <2>1
<1>2. ASSUME NEW n \in 0..k, n \in S PROVE n + 1 \in S
  <2>1. PICK f : IsLoop(f, s, n)
    BY <1>2
  <2> DEFINE g == [i \in 0..n + 1 |-> IF i <= n THEN f[i] ELSE Turns(f[n], n + 1)]
  <2>2. ASSUME NEW i \in 0..n + 1
        PROVE  g[i] = IF i = 0 THEN {s} ELSE Turns(g[i - 1], i)
    <3>1. CASE i <= n
      <4>1. i \in 0..n /\ i <= n + 1
        BY <3>1
      <4>2. f[i] = IF i = 0 THEN {s} ELSE Turns(f[i - 1], i)
        BY <2>1, <4>1 DEF IsLoop, Turns
      <4>3. i # 0 => g[i - 1] = f[i - 1]
        BY <4>1
      <4> QED BY <3>1, <4>2, <4>3
    <3>2. CASE i = n + 1
      BY <3>2
    <3> QED BY <3>1, <3>2
  <2> HIDE DEF g
  <2>3. g = [i \in 0..n + 1 |-> g[i]]
    BY DEF g
  <2>4. g = [i \in 0..n + 1 |-> IF i = 0 THEN {s} ELSE Turns(g[i - 1], i)]
    BY <2>2, <2>3
  <2>5. IsLoop(g, s, n + 1)
    BY <2>4 DEF IsLoop, Turns
  <2> QED BY <2>5
<1> HIDE DEF S
<1>3. k \in S
  BY <1>1, <1>2, Places
<1> QED BY <1>3 DEF S

\* The loop ends with a site it has edited as install may.
LEMMA InstalledIs ==
  ASSUME NEW s, IsSite(s)
  PROVE  Edited(s, Installed(s))
<1>1. Len(Edits) \in Nat
  BY DEF Edits
<1>2. PICK f : IsLoop(f, s, Len(Edits))
  BY <1>1, LoopExists
<1>3. \E f1 : IsLoop(f1, s, Len(Edits)) /\ Loop(s) = f1
  BY <1>2 DEF IsLoop, Loop
<1>4. PICK f1 : IsLoop(f1, s, Len(Edits)) /\ Loop(s) = f1
  BY <1>3
<1> DEFINE S == {i \in 0..Len(Edits) : f1[i] # {} /\ \A t \in f1[i] : Edited(s, t)}
<1>5. 0 \in S
  <2>1. f1[0] = {s} /\ 0 \in 0..Len(Edits)
    BY <1>1, <1>4 DEF IsLoop
  <2>2. Edited(s, s)
    BY DEF Edited
  <2> QED BY <2>1, <2>2
<1>6. ASSUME NEW i \in 0..Len(Edits), i < Len(Edits), i \in S PROVE i + 1 \in S
  <2> DEFINE j == i + 1
  <2>1. j \in 0..Len(Edits) /\ j - 1 = i /\ j # 0
    BY <1>1, <1>6
  <2> HIDE DEF j
  <2>2. f1[j] = UNION {Turn(t, Edits[j]) : t \in f1[i]}
    <3>1. f1[j] = IF j = 0 THEN {s} ELSE UNION {Turn(t, Edits[j]) : t \in f1[j - 1]}
      BY <1>4, <2>1, Zenon DEF IsLoop
    <3> QED BY <2>1, <3>1
  <2>3. \A t \in f1[i] : Turn(t, Edits[j]) # {} /\ \A u \in Turn(t, Edits[j]) : Edited(s, u)
    BY <1>6, TurnKeeps
  <2>4. f1[i] # {}
    BY <1>6
  <2>5. f1[j] # {} /\ \A u \in f1[j] : Edited(s, u)
    BY <2>2, <2>3, <2>4
  <2> QED BY <2>1, <2>5 DEF j
<1> HIDE DEF S
<1>7. Len(Edits) \in S
  <2>1. Len(Edits) \in 0..Len(Edits)
    BY <1>1
  <2> QED BY <1>1, <1>5, <1>6, <2>1, Places
<1>8. f1[Len(Edits)] # {} /\ \A t \in f1[Len(Edits)] : Edited(s, t)
  BY <1>7 DEF S
<1>9. Installed(s) \in f1[Len(Edits)]
  BY <1>4, <1>8 DEF Installed
<1> QED BY <1>8, <1>9
-----------------------------------------------------------------------------
(* Scripts stay scripts.                                                   *)

\* A person who mends the scripts leaves scripts.
LEMMA RechainedIs ==
  ASSUME NEW s, IsSite(s), NEW m \in Mounts, NEW t \in Rechained(s, m)
  PROVE  IsSite(t)
<1>1. IsJoined(Kept(s.pre)) /\ IsScript(Closed(Kept(s.build)))
  BY KeptIs, ClosedIs DEF IsSite
<1>2. IsScript(Closed([Fragment(m) EXCEPT ![2].after = "&&"] \o Kept(s.pre)))
  BY <1>1, FragmentIs, JoinedConcat, ClosedIs
<1>3. IsScript(Kept(s.pre) \o Fragment(m))
  <2>1. IsOpen(Kept(s.pre))
    BY <1>1 DEF IsJoined, IsOpen
  <2>2. IsWhole(Kept(s.pre) \o Fragment(m))
    BY <2>1, OpenConcat, FragmentIs
  <2> QED BY <2>2 DEF IsWhole, IsScript
<1>4. PICK p : IsScript(p) /\ t = [s EXCEPT !.pre = p, !.build = Closed(Kept(s.build))]
  BY <1>2, <1>3 DEF Rechained
<1> QED BY <1>1, <1>4 DEF IsSite

\* Whoever follows an instruction leaves a site.
LEMMA FollowedIs ==
  ASSUME NEW s, IsSite(s), NEW e, NEW t \in Followed(s, e)
  PROVE  IsSite(t)
<1>1. \/ t = [s EXCEPT !.declared = Mount(s), !.pinned = TRUE, !.at = Mount(s)]
      \/ \E v : t = [s EXCEPT !.file[e] = v]
      \/ t \in Rechained(s, Mount(s))
  BY DEF Followed, MountFiles, Generated
<1>2. ASSUME t = [s EXCEPT !.declared = Mount(s), !.pinned = TRUE, !.at = Mount(s)]
      PROVE  IsSite(t)
  BY <1>2, MountIs DEF IsSite
<1> QED BY <1>1, <1>2, FileEdit, RechainedIs, MountIs

\* Every repository to start from is a site.
LEMMA SiteStart == Init => IsSite(site)
  BY InstallAssumption DEF Init

\* Whatever is done to a site leaves one.
LEMMA SiteStep == IsSite(site) /\ [Next]_vars => IsSite(site')
<1> SUFFICES ASSUME IsSite(site), [Next]_vars PROVE IsSite(site')
  OBVIOUS
<1>1. CASE Install
  BY <1>1, InstalledIs DEF Install, Edited
<1>2. ASSUME NEW e \in Range(Edits), Follow(e) PROVE IsSite(site')
  BY <1>2, FollowedIs DEF Follow
<1>3. CASE Pin \/ Checkout \/ Dependencies
  BY <1>3 DEF Pin, Checkout, Dependencies, IsSite
<1>4. CASE FollowLoader \/ Sync \/ Rewrite
  <2>1. \E e, v : site' = [site EXCEPT !.file[e] = v]
    BY <1>4 DEF FollowLoader, Sync, Rewrite, Happens
  <2> QED BY <2>1, FileEdit
<1>5. CASE Clone \/ Move
  BY <1>5 DEF Clone, Move, Happens, IsSite
<1>6. CASE EditPrebuild
  BY <1>6, PreEdit, InstallAssumption DEF EditPrebuild, Happens
<1>7. CASE UNCHANGED vars
  BY <1>7 DEF vars
<1> QED BY <1>1, <1>2, <1>3, <1>4, <1>5, <1>6, <1>7 DEF Next

\* A site keeps the shape of one, and its scripts can be split or not as a whole.
SiteInv == IsSite(site)

\* The scripts of a repository stay scripts, by induction over its steps.
LEMMA SiteInvariant == Spec => []SiteInv
<1>1. Init => SiteInv
  BY SiteStart DEF SiteInv
<1>2. SiteInv /\ [Next]_vars => SiteInv'
  BY SiteStep DEF SiteInv
<1> QED BY <1>1, <1>2, PTL DEF Spec

\* No build of a chain the check finds wired ends well unless every prefetch and
\* every guard ran and succeeded and the site verified, for any scripts,
\* operators and outcomes: nothing between a failed guard and the end of a
\* script loses the failure.
THEOREM NothingUnwired == Spec => []NothingShipsUnwired
<1>1. SiteInv => NothingShipsUnwired
  BY WiredShips DEF SiteInv
<1> QED BY <1>1, SiteInvariant, PTL
-----------------------------------------------------------------------------
(* What install appends.                                                   *)

\* Two scripts, and how their commands would end, that are the same up to command n.
Alike(s, out, t, ends, n) == \A i \in 1..n : s[i] = t[i] /\ out[i] = ends[i]

\* Two scripts do the same as long as they hold the same.
LEMMA SameStart ==
  ASSUME NEW s \in Seq(Segments), NEW t \in Seq(Segments), NEW out, NEW ends,
         NEW n \in Nat, n <= Len(s), n <= Len(t), Alike(s, out, t, ends, n)
  PROVE  Trace(s, out)[n] = Trace(t, ends)[n]
<1> DEFINE S == {i \in 0..n : Trace(s, out)[i] = Trace(t, ends)[i]}
<1>1. 0 \in S
  BY TraceIs
<1>2. ASSUME NEW i \in 0..n, i < n, i \in S PROVE i + 1 \in S
  <2> DEFINE j == i + 1
  <2>1. j \in 1..n /\ j \in 0..n /\ j - 1 = i /\ j \in 1..Len(s) /\ j \in 1..Len(t)
    BY <1>2
  <2> HIDE DEF j
  <2>2. Trace(s, out)[j] = Run(s, out, Trace(s, out)[i], j)
    BY <2>1, TraceIs
  <2>3. Trace(t, ends)[j] = Run(t, ends, Trace(t, ends)[i], j)
    <3>1. Len(t) \in Nat
      OBVIOUS
    <3>2. \A k \in 1..Len(t) : Trace(t, ends)[k] = Run(t, ends, Trace(t, ends)[k - 1], k)
      BY <3>1, TraceIs, Zenon
    <3> QED BY <2>1, <3>2
  <2>4. s[j] = t[j] /\ out[j] = ends[j] /\ Trace(s, out)[i] = Trace(t, ends)[i]
    BY <1>2, <2>1 DEF Alike
  <2> DEFINE r == Trace(s, out)[i]
  <2>5. Run(s, out, r, j) = Run(t, ends, r, j)
    <3>1. Gone(s, r, j) = Gone(t, r, j)
      BY <2>4, Zenon DEF Gone
    <3> QED BY <2>4, <3>1, Zenon DEF Run
  <2> QED BY <2>1, <2>2, <2>3, <2>4, <2>5 DEF j
<1> HIDE DEF S
<1>3. n \in S
  <2>1. n \in 0..n
    OBVIOUS
  <2> QED BY <1>1, <1>2, <2>1, Places
<1> QED BY <1>3 DEF S

\* A script whose last two commands, behind n others, are the fragment and succeed.
EndsInFragment(s, ends, n, m) ==
  /\ s \in Seq(Segments) /\ Len(s) = n + 2 /\ Succeeds(s, ends)
  /\ s[n + 1] = Fragment(m)[1] /\ s[n + 2] = Fragment(m)[2]
  /\ ends[n + 1] = TRUE /\ ends[n + 2] = TRUE

\* The fragment behind `&&`, when its commands succeed, ends as what is before it.
LEMMA FragmentRuns ==
  ASSUME NEW s, NEW ends, NEW n \in Nat, NEW m \in Mounts, EndsInFragment(s, ends, n, m),
         n = 0 \/ Trace(s, ends)[n].op = "&&"
  PROVE  /\ Trace(s, ends)[n + 2].ok = Trace(s, ends)[n].ok
         /\ Trace(s, ends)[n + 2].valid = Trace(s, ends)[n].valid
         /\ Trace(s, ends)[n + 2].ran \ {n + 1, n + 2} = Trace(s, ends)[n].ran \ {n + 1, n + 2}
<1>0. /\ s \in Seq(Segments) /\ Len(s) = n + 2 /\ Succeeds(s, ends)
      /\ s[n + 1] = Fragment(m)[1] /\ s[n + 2] = Fragment(m)[2]
      /\ ends[n + 1] = TRUE /\ ends[n + 2] = TRUE
  BY DEF EndsInFragment
<1> DEFINE T == Trace(s, ends)
<1>1. /\ s[n + 1].does = "prefetch" /\ s[n + 1].after = "&&"
      /\ s[n + 2].does = "guard" /\ s[n + 2].after = "end"
  <2>1. s[n + 1] = Command("prefetch", m, "&&") /\ s[n + 2] = Command("guard", Here, "end")
    BY <1>0, FragmentIs
  <2> QED BY <2>1 DEF Command
<1>2. n + 1 \in 1..Len(s) /\ n + 2 \in 1..Len(s) /\ (n + 1) - 1 = n /\ (n + 2) - 1 = n + 1
  BY <1>0
<1>3. Stepped(s, ends, T[n], T[n + 1], n + 1) /\ Stepped(s, ends, T[n + 1], T[n + 2], n + 2)
  BY <1>0, <1>2, TraceStep
<1>4. n = 0 => T[n].op = ";" /\ T[n].ok = TRUE
  <2>1. Start.op = ";" /\ Start.ok = TRUE
    BY DEF Start
  <2>2. T[0] = Start
    BY <1>0, TraceIs
  <2> QED BY <2>1, <2>2, Zenon
<1> HIDE DEF T
<1>5. T[n] \in States /\ T[n + 1] \in States /\ T[n + 2] \in States
  BY <1>3 DEF Stepped
<1>6. Goes(T[n]) => T[n].ok = TRUE
  BY <1>4, <1>5 DEF T, Goes, States
<1>7. /\ T[n + 1].op = "&&" /\ T[n + 1].ok = T[n].ok /\ T[n + 1].valid = T[n].valid
      /\ T[n + 1].ran \in {T[n].ran, T[n].ran \cup {n + 1}}
  <2>1. OkAfter(s, ends, T[n], n + 1) = T[n].ok
    <3>1. CASE Goes(T[n])
      <4>1. ends[n + 1] = TRUE /\ s[n + 1].after = "&&"
        BY <1>0, <1>1
      <4> QED BY <1>6, <3>1, <4>1 DEF OkAfter, Goes
    <3>2. CASE ~Goes(T[n])
      <4>1. s[n + 1].after = "&&" /\ T[n].ok \in BOOLEAN
        BY <1>1, <1>5 DEF States
      <4> HIDE DEF Goes
      <4> QED BY <3>2, <4>1 DEF OkAfter
    <3> QED BY <3>1, <3>2
  <2> QED BY <1>1, <1>3, <2>1 DEF Stepped
<1>8. Goes(T[n + 1]) => T[n + 1].ok = TRUE
  BY <1>5, <1>7 DEF Goes, States
<1>9. /\ T[n + 2].ok = T[n].ok /\ T[n + 2].valid = T[n].valid
      /\ T[n + 2].ran \in {T[n + 1].ran, T[n + 1].ran \cup {n + 2}}
  <2>1. OkAfter(s, ends, T[n + 1], n + 2) = T[n + 1].ok
    <3>1. CASE Goes(T[n + 1])
      <4>1. ends[n + 2] = TRUE /\ s[n + 2].after = "end"
        BY <1>0, <1>1
      <4> QED BY <1>8, <3>1, <4>1 DEF OkAfter, Goes
    <3>2. CASE ~Goes(T[n + 1])
      <4>1. s[n + 2].after = "end" /\ T[n + 1].ok \in BOOLEAN
        BY <1>1, <1>5 DEF States
      <4> HIDE DEF Goes
      <4> QED BY <3>2, <4>1 DEF OkAfter
    <3> QED BY <3>1, <3>2
  <2> QED BY <1>1, <1>3, <1>7, <2>1 DEF Stepped
<1> QED BY <1>7, <1>9 DEF T

\* The last command of a script does the same whether the script ends behind it
\* or goes on when it succeeds.
LEMMA AppendedTrace ==
  ASSUME NEW s, IsWhole(s), NEW t \in Seq(Segments), NEW out, NEW ends,
         Succeeds(s, out), Succeeds(t, ends), Len(s) <= Len(t),
         Alike(s, out, t, ends, Len(s) - 1), out[Len(s)] = ends[Len(s)],
         s[Len(s)].does # "nothing", t[Len(s)] = [s[Len(s)] EXCEPT !.after = "&&"]
  PROVE  LET r == Trace(s, out)[Len(s)]
             u == Trace(t, ends)[Len(s)]
         IN  u.op = "&&" /\ u.ok = r.ok /\ u.valid = r.valid /\ u.ran = r.ran
<1> DEFINE n == Len(s)
           T == Trace(s, out)
           U == Trace(t, ends)
<1>1. s \in Seq(Segments) /\ n \in 1..n /\ n \in 1..Len(t) /\ n - 1 \in Nat /\ s[n].after = "end"
  BY DEF IsWhole
<1>2. T[n - 1] = U[n - 1]
  <2> DEFINE k == n - 1
  <2>1. k \in Nat /\ k <= Len(s) /\ k <= Len(t)
    BY <1>1
  <2>2. Alike(s, out, t, ends, k)
    OBVIOUS
  <2> HIDE DEF k
  <2>3. Trace(s, out)[k] = Trace(t, ends)[k]
    BY <1>1, <2>1, <2>2, SameStart
  <2> QED BY <2>3 DEF k
<1>3. Stepped(s, out, T[n - 1], T[n], n) /\ Stepped(t, ends, U[n - 1], U[n], n)
  BY <1>1, TraceStep
<1>4. t[n].does # "nothing" /\ t[n].after = "&&"
  <2>1. s[n] \in Segments
    BY <1>1
  <2> QED BY <2>1 DEF Segments
<1>5. out[n] = ends[n] /\ out[n] \in BOOLEAN
  BY <1>1 DEF Succeeds
<1> HIDE DEF T, U
<1>6. /\ T[n].ok = OkAfter(s, out, T[n - 1], n) /\ U[n].ok = OkAfter(t, ends, T[n - 1], n)
      /\ OkAfter(s, out, T[n - 1], n) = OkAfter(t, ends, T[n - 1], n)
  <2>1. OkAfter(s, out, T[n - 1], n) = OkAfter(t, ends, T[n - 1], n)
    BY <1>1, <1>4, <1>5 DEF OkAfter
  <2>2. T[n].ok = OkAfter(s, out, T[n - 1], n)
    BY <1>1, <1>3 DEF Stepped
  <2>3. U[n].ok = OkAfter(t, ends, T[n - 1], n)
    BY <1>2, <1>3, <1>4 DEF Stepped
  <2> QED BY <2>1, <2>2, <2>3
<1>7. /\ T[n].valid = T[n - 1].valid
      /\ T[n].ran = IF Goes(T[n - 1]) THEN T[n - 1].ran \cup {n} ELSE T[n - 1].ran
  BY <1>1, <1>3, <1>5 DEF Stepped, States
<1>8. /\ U[n].op = "&&"
      /\ U[n].valid = T[n - 1].valid
      /\ U[n].ran = IF Goes(T[n - 1]) THEN T[n - 1].ran \cup {n} ELSE T[n - 1].ran
  BY <1>1, <1>2, <1>3, <1>4, <1>5 DEF Stepped, States
<1> QED BY <1>6, <1>7, <1>8 DEF T, U

\* A script that goes on behind its last command.
LEMMA ReopenedIs ==
  ASSUME NEW s, IsWhole(s)
  PROVE  LET c == [s EXCEPT ![Len(s)].after = "&&"]
         IN  /\ c \in Seq(Segments) /\ Len(c) = Len(s)
             /\ c[Len(s)] = [s[Len(s)] EXCEPT !.after = "&&"]
             /\ \A i \in 1..Len(s) - 1 : c[i] = s[i]
<1> DEFINE n == Len(s)
           c == [s EXCEPT ![n].after = "&&"]
           e == [s[n] EXCEPT !.after = "&&"]
<1>1. s \in Seq(Segments) /\ n \in 1..n /\ s[n] \in Segments
  BY DEF IsWhole
<1>2. c = [s EXCEPT ![n] = e]
  BY <1>1
<1>3. e \in Segments
  BY <1>1 DEF Segments, Operators
<1> HIDE DEF c, e
<1>4. c \in Seq(Segments) /\ Len(c) = n
  BY <1>1, <1>2, <1>3
<1>5. c[n] = e /\ \A i \in 1..n - 1 : c[i] = s[i]
  BY <1>1, <1>2
<1> QED BY <1>4, <1>5 DEF c, e

\* A script with the fragment behind it.
Extension(s, m) == [s EXCEPT ![Len(s)].after = "&&"] \o Fragment(m)

\* Two commands behind a script, place by place.
LEMMA TwoMore ==
  ASSUME NEW c \in Seq(Segments), NEW f \in Seq(Segments), Len(f) = 2
  PROVE  /\ c \o f \in Seq(Segments) /\ Len(c \o f) = Len(c) + 2
         /\ \A i \in 1..Len(c) : (c \o f)[i] = c[i]
         /\ (c \o f)[Len(c) + 1] = f[1] /\ (c \o f)[Len(c) + 2] = f[2]
<1> DEFINE t == c \o f
<1>1. Len(c) \in Nat /\ Len(c) + 1 - Len(c) = 1 /\ Len(c) + 2 - Len(c) = 2
  OBVIOUS
<1>2. /\ t \in Seq(Segments) /\ Len(t) = Len(c) + 2
      /\ \A i \in 1..Len(c) + 2 : t[i] = IF i <= Len(c) THEN c[i] ELSE f[i - Len(c)]
  <2>1. /\ t \in Seq(Segments) /\ Len(t) = Len(c) + Len(f)
        /\ \A i \in 1..Len(c) + Len(f) : t[i] = IF i <= Len(c) THEN c[i] ELSE f[i - Len(c)]
    BY ConcatProperties, Zenon
  <2> QED BY <2>1
<1> HIDE DEF t
<1>3. \A i \in 1..Len(c) : t[i] = c[i]
  BY <1>1, <1>2
<1>4. t[Len(c) + 1] = f[1] /\ t[Len(c) + 2] = f[2]
  BY <1>1, <1>2
<1> QED BY <1>2, <1>3, <1>4 DEF t

\* A script with the fragment behind it, place by place.
LEMMA ExtensionIs ==
  ASSUME NEW s, IsWhole(s), NEW m \in Mounts
  PROVE  LET t == Extension(s, m)
         IN  /\ t \in Seq(Segments) /\ Len(t) = Len(s) + 2
             /\ \A i \in 1..Len(s) - 1 : t[i] = s[i]
             /\ t[Len(s)] = [s[Len(s)] EXCEPT !.after = "&&"]
             /\ t[Len(s) + 1] = Fragment(m)[1] /\ t[Len(s) + 2] = Fragment(m)[2]
<1> DEFINE c == [s EXCEPT ![Len(s)].after = "&&"]
           t == c \o Fragment(m)
<1>1. s \in Seq(Segments) /\ Len(s) \in Nat /\ Len(s) \in 1..Len(s)
  BY DEF IsWhole
<1>2. /\ c \in Seq(Segments) /\ Len(c) = Len(s)
      /\ c[Len(s)] = [s[Len(s)] EXCEPT !.after = "&&"]
      /\ \A i \in 1..Len(s) - 1 : c[i] = s[i]
  BY ReopenedIs
<1>3. Fragment(m) \in Seq(Segments) /\ Len(Fragment(m)) = 2
  BY FragmentIs
<1> HIDE DEF c
<1>4. /\ t \in Seq(Segments) /\ Len(t) = Len(s) + 2
      /\ \A i \in 1..Len(s) : t[i] = c[i]
      /\ t[Len(s) + 1] = Fragment(m)[1] /\ t[Len(s) + 2] = Fragment(m)[2]
  BY <1>2, <1>3, TwoMore
<1> HIDE DEF t
<1>5. t[Len(s)] = [s[Len(s)] EXCEPT !.after = "&&"]
  BY <1>1, <1>2, <1>4
<1>6. \A i \in 1..Len(s) - 1 : t[i] = s[i]
  BY <1>1, <1>2, <1>4
<1> QED BY <1>4, <1>5, <1>6 DEF t, c, Extension

\* How the commands would end when n of them do as before and two more succeed.
TwoSucceed(n, out, ends) ==
  /\ \A i \in 1..n : out[i] \in BOOLEAN /\ out[i] = ends[i]
  /\ ends[n + 1] = TRUE /\ ends[n + 2] = TRUE

\* A script with the fragment behind it ends as it would alone, having run the same of its
\* own commands, when the commands of the fragment succeed.
LEMMA ExtendedRuns ==
  ASSUME NEW s, IsWhole(s), NEW m \in Mounts, NEW t, t = Extension(s, m), IsChain(t),
         ~(\E i \in Running(t, {"prefetch", "guard"}) : Dangling(t)),
         NEW out, NEW ends, TwoSucceed(Len(s), out, ends)
  PROVE  /\ Shell(t, ends).ok = Shell(s, out).ok
         /\ Shell(t, ends).ran \cap 1..Len(s) = Shell(s, out).ran \cap 1..Len(s)
<1> DEFINE n == Len(s)
<1>1. s \in Seq(Segments) /\ n \in Nat /\ n \in 1..n /\ n # 0 /\ s[n] \in Segments
  BY DEF IsWhole
<1> HIDE DEF n
<1>5. t \in Seq(Segments) /\ Len(t) = n + 2
  BY ExtensionIs DEF n
<1>6. (\A i \in 1..n - 1 : t[i] = s[i]) /\ t[n] = [s[n] EXCEPT !.after = "&&"]
  BY ExtensionIs DEF n
<1>7. t[n + 1] = Fragment(m)[1] /\ t[n + 2] = Fragment(m)[2]
  BY ExtensionIs DEF n
<1>8. \A i \in 1..n : out[i] \in BOOLEAN /\ out[i] = ends[i]
  BY Zenon DEF n, TwoSucceed
<1>9. ends[n + 1] = TRUE /\ ends[n + 2] = TRUE
  BY Zenon DEF n, TwoSucceed
<1>10. Succeeds(s, out) /\ Succeeds(t, ends)
  <2>1. \A i \in 1..Len(t) : i \in 1..n \/ i = n + 1 \/ i = n + 2
    BY <1>1, <1>5
  <2>2. Succeeds(s, out)
    BY <1>8 DEF Succeeds, n
  <2>3. \A i \in 1..Len(t) : ends[i] \in BOOLEAN
    BY <1>8, <1>9, <2>1
  <2> QED BY <2>2, <2>3 DEF Succeeds
<1>11. s[n].does # "nothing"
  <2> SUFFICES ASSUME s[n].does = "nothing" PROVE FALSE
    OBVIOUS
  <2>1. t[n + 1].does = "prefetch"
    <3>1. t[n + 1] = Command("prefetch", m, "&&")
      BY <1>7, FragmentIs
    <3> QED BY <3>1 DEF Command
  <2>2. n + 1 \in DOMAIN t /\ n \in DOMAIN t
    BY <1>1, <1>5
  <2>3. n + 1 \in Running(t, {"prefetch", "guard"})
    BY <2>1, <2>2 DEF Running
  <2>4. t[n].does = "nothing" /\ t[n].after = "&&"
    BY <1>1, <1>6 DEF Segments
  <2>5. n \in Running(t, {"nothing"}) /\ After(t, n) = "&&"
    BY <2>2, <2>4 DEF Running, After
  <2> QED BY <2>3, <2>5 DEF Dangling
<1>12. /\ Trace(t, ends)[n].op = "&&" /\ Trace(t, ends)[n].ok = Trace(s, out)[n].ok
       /\ Trace(t, ends)[n].valid = Trace(s, out)[n].valid
       /\ Trace(t, ends)[n].ran = Trace(s, out)[n].ran
  <2>1. Len(s) <= Len(t)
    BY <1>1, <1>5 DEF n
  <2>2. Alike(s, out, t, ends, Len(s) - 1)
    BY <1>1, <1>6, <1>8 DEF n, Alike
  <2>3. out[Len(s)] = ends[Len(s)]
    BY <1>1, <1>8 DEF n
  <2>4. s[Len(s)].does # "nothing" /\ t[Len(s)] = [s[Len(s)] EXCEPT !.after = "&&"]
    BY <1>6, <1>11 DEF n
  <2>5. /\ Trace(t, ends)[Len(s)].op = "&&"
        /\ Trace(t, ends)[Len(s)].ok = Trace(s, out)[Len(s)].ok
        /\ Trace(t, ends)[Len(s)].valid = Trace(s, out)[Len(s)].valid
        /\ Trace(t, ends)[Len(s)].ran = Trace(s, out)[Len(s)].ran
    BY <1>5, <1>10, <2>1, <2>2, <2>3, <2>4, AppendedTrace
  <2> QED BY <2>5 DEF n
<1>13. /\ Trace(t, ends)[n + 2].ok = Trace(t, ends)[n].ok
       /\ Trace(t, ends)[n + 2].valid = Trace(t, ends)[n].valid
       /\ Trace(t, ends)[n + 2].ran \ {n + 1, n + 2} = Trace(t, ends)[n].ran \ {n + 1, n + 2}
  <2>1. EndsInFragment(t, ends, n, m)
    BY <1>5, <1>7, <1>9, <1>10 DEF EndsInFragment
  <2>2. Trace(t, ends)[n].op = "&&"
    BY <1>12
  <2> QED BY <1>1, <2>1, <2>2, FragmentRuns
<1>14. (1..n) \cap {n + 1, n + 2} = {}
  BY <1>1
<1>15. Shell(s, out) = (IF Trace(s, out)[n].valid
                        THEN [ok |-> Trace(s, out)[n].ok, ran |-> Trace(s, out)[n].ran]
                        ELSE [ok |-> FALSE, ran |-> {}])
  BY DEF Shell, n
<1>16. Shell(t, ends) = (IF Trace(t, ends)[n + 2].valid
                         THEN [ok |-> Trace(t, ends)[n + 2].ok, ran |-> Trace(t, ends)[n + 2].ran]
                         ELSE [ok |-> FALSE, ran |-> {}])
  BY <1>5 DEF Shell
<1>17. CASE Trace(s, out)[n].valid
  <2>1. Shell(s, out).ok = Trace(s, out)[n].ok /\ Shell(s, out).ran = Trace(s, out)[n].ran
    BY <1>15, <1>17
  <2>2. /\ Shell(t, ends).ok = Trace(t, ends)[n + 2].ok
        /\ Shell(t, ends).ran = Trace(t, ends)[n + 2].ran
    BY <1>12, <1>13, <1>16, <1>17
  <2>3. Trace(t, ends)[n + 2].ran \cap 1..n = Trace(s, out)[n].ran \cap 1..n
    BY <1>12, <1>13, <1>14
  <2>4. Shell(t, ends).ok = Shell(s, out).ok
    BY <1>12, <1>13, <2>1, <2>2, Zenon
  <2> QED BY <2>1, <2>2, <2>3, <2>4 DEF n
<1>18. CASE ~Trace(s, out)[n].valid
  <2>1. Shell(s, out).ok = FALSE /\ Shell(s, out).ran = {}
    BY <1>15, <1>18
  <2>2. Shell(t, ends).ok = FALSE /\ Shell(t, ends).ran = {}
    BY <1>12, <1>13, <1>16, <1>18
  <2> QED BY <2>1, <2>2
<1> QED BY <1>17, <1>18

\* The fragment alone ends well when its commands do.
LEMMA FragmentAlone ==
  ASSUME NEW m \in Mounts, NEW t, t = Fragment(m), NEW ends, ends[1] = TRUE, ends[2] = TRUE
  PROVE  Shell(t, ends).ok = TRUE
<1>1. t \in Seq(Segments) /\ Len(t) = 2
  BY FragmentIs
<1>2. EndsInFragment(t, ends, 0, m)
  <2>1. \A i \in 1..Len(t) : i = 1 \/ i = 2
    BY <1>1
  <2>2. Succeeds(t, ends)
    BY <2>1 DEF Succeeds
  <2> QED BY <1>1, <2>2 DEF EndsInFragment
<1>3. /\ Trace(t, ends)[0 + 2].ok = Trace(t, ends)[0].ok
      /\ Trace(t, ends)[0 + 2].valid = Trace(t, ends)[0].valid
  BY <1>2, FragmentRuns
<1>4. Start.ok = TRUE /\ Start.valid = TRUE
  BY DEF Start
<1>5. Trace(t, ends)[0] = Start
  BY <1>1, TraceIs
<1>6. Trace(t, ends)[2].ok = TRUE /\ Trace(t, ends)[2].valid = TRUE
  <2>1. Trace(t, ends)[0].ok = TRUE /\ Trace(t, ends)[0].valid = TRUE
    BY <1>4, <1>5, Zenon
  <2> QED BY <1>3, <2>1
<1> QED BY <1>1, <1>6 DEF Shell

\* So does a script with nothing to run.
LEMMA NothingRuns ==
  ASSUME NEW s, s = <<>> \/ (IsWhole(s) /\ Blank(s)), NEW out, Succeeds(s, out)
  PROVE  Shell(s, out).ok = TRUE
<1>1. Start.ok = TRUE /\ Start.valid = TRUE /\ Start.op = ";"
  BY DEF Start
<1>2. CASE s = <<>>
  <2>1. Len(s) = 0
    BY <1>2
  <2>2. Trace(s, out)[0] = Start
    BY <2>1, TraceIs
  <2>3. Trace(s, out)[0].ok = TRUE /\ Trace(s, out)[0].valid = TRUE
    BY <1>1, <2>2, Zenon
  <2> QED BY <2>1, <2>3 DEF Shell
<1>3. CASE IsWhole(s) /\ Blank(s)
  <2>1. s \in Seq(Segments) /\ Len(s) = 1 /\ s[1].does = "nothing" /\ s[1].after = "end"
    BY <1>3 DEF IsWhole, Blank
  <2>2. Trace(s, out)[0] = Start
    BY <2>1, TraceIs
  <2>3. Stepped(s, out, Start, Trace(s, out)[1], 1)
    <3>1. Stepped(s, out, Trace(s, out)[1 - 1], Trace(s, out)[1], 1)
      BY <2>1, TraceStep
    <3> QED BY <2>2, <3>1
  <2>4. Continues(Start.op, s[1].after)
    BY <1>1, <2>1 DEF Continues
  <2>5. Trace(s, out)[1].ok = TRUE /\ Trace(s, out)[1].valid = TRUE
    BY <1>1, <2>1, <2>3, <2>4 DEF Stepped
  <2> QED BY <2>1, <2>5 DEF Shell
<1> QED BY <1>2, <1>3

\* What the edit makes of a prebuild ends as it did and runs what it ran.
LEMMA HookKeeps ==
  ASSUME NEW pre, IsScript(pre), NEW build, NEW m \in Mounts, NEW new \in Hooked(pre, build, m),
         ~(\E i \in Running(new, {"prefetch", "guard"}) : Dangling(new)),
         NEW out, Succeeds(Commands(pre), out), NEW ends, TwoSucceed(Len(new) - 2, out, ends)
  PROVE  /\ Shell(new, ends).ok = Shell(Commands(pre), out).ok
         /\ Shell(new, ends).ran \cap Running(Commands(pre), {"step", "compile", "exit"})
              = Shell(Commands(pre), out).ran \cap Running(Commands(pre), {"step", "compile", "exit"})
<1>1. /\ IsWhole(new)
      /\ \/ new = Fragment(m) /\ (pre = None \/ (IsChain(pre) /\ IsWhole(pre) /\ Blank(pre)))
         \/ IsChain(pre) /\ IsWhole(pre) /\ new = Extension(pre, m)
  BY HookedIs DEF Extension
<1>2. CASE new = Fragment(m) /\ (pre = None \/ (IsChain(pre) /\ IsWhole(pre) /\ Blank(pre)))
  <2> DEFINE old == Commands(pre)
  <2>1. old = <<>> \/ (IsWhole(old) /\ Blank(old))
    BY <1>2 DEF Commands, IsChain
  <2>2. Running(old, {"step", "compile", "exit"}) = {}
    BY <2>1 DEF Running, Blank, IsWhole
  <2>3. ends[1] = TRUE /\ ends[2] = TRUE
    <3>1. Len(new) - 2 + 1 = 1 /\ Len(new) - 2 + 2 = 2
      <4>1. Len(new) = 2
        BY <1>2, FragmentIs
      <4> QED BY <4>1
    <3>2. ends[Len(new) - 2 + 1] = TRUE /\ ends[Len(new) - 2 + 2] = TRUE
      BY Zenon DEF TwoSucceed
    <3> QED BY <3>1, <3>2, Zenon
  <2> HIDE DEF old
  <2>4. Shell(new, ends).ok = TRUE
    BY <1>2, <2>3, FragmentAlone
  <2>5. Shell(old, out).ok = TRUE
    <3>1. Succeeds(old, out)
      BY DEF old
    <3> QED BY <2>1, <3>1, NothingRuns
  <2> QED BY <2>2, <2>4, <2>5 DEF old
<1>3. CASE IsChain(pre) /\ IsWhole(pre) /\ new = Extension(pre, m)
  <2>1. Commands(pre) = pre /\ pre \in Seq(Segments)
    BY <1>3 DEF Commands, IsWhole
  <2>2. IsChain(new)
    BY <1>1, PrebuildAssumption DEF IsChain, IsWhole
  <2>3. TwoSucceed(Len(pre), out, ends)
    <3>1. Len(new) - 2 = Len(pre)
      <4>1. Len(new) = Len(pre) + 2
        BY <1>3, ExtensionIs
      <4>2. Len(pre) \in Nat
        BY <2>1
      <4> QED BY <4>1, <4>2
    <3> QED BY <3>1
  <2>4. /\ Shell(new, ends).ok = Shell(pre, out).ok
        /\ Shell(new, ends).ran \cap 1..Len(pre) = Shell(pre, out).ran \cap 1..Len(pre)
    BY <1>3, <2>2, <2>3, ExtendedRuns
  <2>5. Running(pre, {"step", "compile", "exit"}) \subseteq 1..Len(pre)
    BY <2>1 DEF Running
  <2> QED BY <2>1, <2>4, <2>5
<1> QED BY <1>1, <1>2, <1>3

\* The argument of BuildIsKept, for what install makes of one site.
LEMMA KeepsTheBuild == IsSite(site) => InstallKeepsTheBuild
<1> DEFINE pre == site.pre
           old == Commands(pre)
           new == Installed(site).pre
           m == Mount(site)
<1> SUFFICES ASSUME IsSite(site), new # pre, NEW out \in [DOMAIN old -> BOOLEAN]
             PROVE  LET then == Shell(new, [i \in DOMAIN new |-> i > Len(new) - Len(Fragment(None)) \/ out[i]])
                    IN  /\ then.ok = Shell(old, out).ok
                        /\ then.ran \cap Running(old, {"step", "compile", "exit"})
                             = Shell(old, out).ran \cap Running(old, {"step", "compile", "exit"})
  BY DEF InstallKeepsTheBuild
<1>1. new \in Hooked(pre, site.build, m) /\ Chained(new, Installed(site).build, m) /\ m \in Mounts
      /\ IsScript(pre)
  BY InstalledIs, MountIs DEF Edited, IsSite
<1>2. Len(Fragment(None)) = 2
  BY DEF Fragment
<1> DEFINE ends == [i \in DOMAIN new |-> i > Len(new) - 2 \/ out[i]]
<1> SUFFICES /\ Shell(new, ends).ok = Shell(old, out).ok
             /\ Shell(new, ends).ran \cap Running(old, {"step", "compile", "exit"})
                  = Shell(old, out).ran \cap Running(old, {"step", "compile", "exit"})
  BY <1>2
<1>3. ~(\E i \in Running(new, {"prefetch", "guard"}) : Dangling(new))
  BY <1>1 DEF Chained
<1> HIDE DEF new, m
<1>4. new \in Seq(Segments) /\ Len(new) >= 2 /\ Len(new) - 2 <= Len(old)
  <2> HIDE DEF pre
  <2>1. /\ IsWhole(new)
        /\ \/ new = Fragment(m)
           \/ IsChain(pre) /\ IsWhole(pre) /\ new = Extension(pre, m)
    BY <1>1, HookedIs DEF Extension
  <2>2. old \in Seq(Segments)
    BY <1>1 DEF Commands, IsScript
  <2> HIDE DEF old
  <2>3. CASE new = Fragment(m)
    <3>1. new \in Seq(Segments) /\ Len(new) = 2
      BY <1>1, <2>3, FragmentIs
    <3>2. Len(old) \in Nat
      BY <2>2
    <3> QED BY <3>1, <3>2
  <2>4. CASE IsChain(pre) /\ IsWhole(pre) /\ new = Extension(pre, m)
    <3>1. old = pre
      BY <2>4 DEF old, Commands
    <3>2. new \in Seq(Segments) /\ Len(new) = Len(pre) + 2
      BY <1>1, <2>4, ExtensionIs
    <3>3. Len(old) \in Nat
      BY <2>2
    <3> QED BY <3>1, <3>2, <3>3
  <2> QED BY <2>1, <2>3, <2>4
<1>5. old \in Seq(Segments)
  BY <1>1 DEF Commands, IsScript
<1>6. \A i \in DOMAIN old : out[i] \in BOOLEAN
  OBVIOUS
<1> DEFINE k == Len(new) - 2
<1>7. TwoSucceed(k, out, ends)
  <2>1. \A i \in 1..k : i \in DOMAIN new /\ i \in DOMAIN old /\ ~(i > Len(new) - 2)
    BY <1>4, <1>5
  <2>2. k + 1 \in DOMAIN new /\ k + 1 > Len(new) - 2 /\ k + 2 \in DOMAIN new /\ k + 2 > Len(new) - 2
    BY <1>4
  <2> HIDE DEF k, old
  <2>3. \A i \in DOMAIN new : ends[i] = (i > Len(new) - 2 \/ out[i])
    BY Zenon
  <2> HIDE DEF ends
  <2>4. \A i \in 1..k : out[i] \in BOOLEAN /\ out[i] = ends[i]
    BY <1>6, <2>1, <2>3, Zenon
  <2>5. ends[k + 1] = TRUE /\ ends[k + 2] = TRUE
    BY <2>2, <2>3, Zenon
  <2> QED BY <2>4, <2>5, Zenon DEF TwoSucceed
<1>8. Succeeds(old, out)
  BY <1>5, <1>6 DEF Succeeds
<1> HIDE DEF ends, pre
<1> QED BY <1>1, <1>3, <1>7, <1>8, HookKeeps

\* What install appends never changes what the prebuild it found comes to, nor
\* which of its commands run, for any script and any outcome of its commands.
THEOREM BuildIsKept == Spec => []InstallKeepsTheBuild
<1>1. SiteInv => InstallKeepsTheBuild
  BY KeepsTheBuild DEF SiteInv
<1> QED BY <1>1, SiteInvariant, PTL
=============================================================================
