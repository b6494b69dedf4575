-------------------------- MODULE FolderSyncProofs --------------------------
(***************************************************************************)
(* FolderSync, proved: whatever runs overlap, whichever of them fail and    *)
(* whatever the server does meanwhile, no mail is skipped, stored twice or  *)
(* lost.                                                                    *)
(*                                                                         *)
(* The argument is FolderInv: what a run has read stays good enough to act  *)
(* on.  A step can spoil it only by what it does to the server, the rows or *)
(* the history; Env says what no step does to them, and from Env alone the  *)
(* knowledge of every run that does not move survives (Bystander).  Each    *)
(* action then owes Env, the new knowledge of its own run, and the facts    *)
(* about the rows.                                                          *)
(***************************************************************************)
EXTENDS FolderSync, WellFoundedInduction, FiniteSetTheorems, TLAPS

Known == FolderAssumption /\ FolderInv

\* What no step does to the data.
Env ==
  /\ \A f \in Folders : uidNext'[f] \in Nat /\ uidNext[f] <= uidNext'[f]
  /\ wandered \subseteq wandered' /\ crossed \subseteq crossed'
  /\ \A f \in Folders, m \in Mails :
       server'[f][m] \in {server[f][m], 0, uidNext[f]}
  /\ \A f \in Folders, m \in Mails :
       m \notin wandered' /\ server[f][m] > 0 => server'[f][m] = server[f][m]
  /\ Settled' \subseteq Settled
  /\ KeepsStored
  /\ \A i \in RowIds : row[i] # NoRow => row'[i] # NoRow /\ row'[i].mail = row[i].mail

(***************************************************************************)
(* Numbers and sets                                                         *)
(***************************************************************************)
LEMMA MinOf ==
  ASSUME NEW S, S \subseteq Nat, S # {}
  PROVE  /\ Min(S) \in S /\ \A y \in S : Min(S) <= y
         /\ \E x \in S : \A y \in S : x <= y
PROOF
<1>1. IsWellFoundedOn(OpToRel(<, Nat), Nat)  BY NatLessThanWellFounded
<1>2. PICK x \in S : \A y \in S : ~(<<y, x>> \in OpToRel(<, Nat))
  BY <1>1, WFMin
<1>3. \A y \in S : x <= y
  <2>1. ASSUME NEW y \in S PROVE x <= y
    <3>1. x \in Nat /\ y \in Nat  OBVIOUS
    <3>2. ~(y < x)  BY <1>2, <3>1 DEF OpToRel
    <3>3. QED  BY <3>1, <3>2
  <2>2. QED  BY <2>1
<1>4. QED  BY <1>3 DEF Min

LEMMA MaxOf ==
  ASSUME NEW n \in Nat, NEW S, S \subseteq 0..n, S # {}
  PROVE  Max(S) \in S /\ \A y \in S : y <= Max(S)
PROOF
<1> DEFINE T == {n - y : y \in S}
<1>1. T \subseteq Nat /\ T # {}  OBVIOUS
<1>2. PICK t \in T : \A u \in T : t <= u  BY <1>1, MinOf
<1>3. PICK x \in S : t = n - x  OBVIOUS
<1>4. \A y \in S : x >= y
  <2>1. ASSUME NEW y \in S PROVE x >= y
    <3>1. n - y \in T  OBVIOUS
    <3>2. n - x <= n - y  BY <3>1, <1>2, <1>3
    <3>3. x \in 0..n /\ y \in 0..n  OBVIOUS
    <3>4. QED  BY <3>2, <3>3
  <2>2. QED  BY <2>1
<1>5. Max(S) \in S /\ \A y \in S : Max(S) >= y  BY <1>4 DEF Max
<1>6. QED
  <2>1. ASSUME NEW y \in S PROVE y <= Max(S)
    <3>1. Max(S) >= y /\ Max(S) \in 0..n /\ y \in 0..n  BY <1>5
    <3>2. QED  BY <3>1
  <2>2. QED  BY <2>1, <1>5

\* The first mail of a batch, the one with the least uid.
LEMMA FirstOf ==
  ASSUME NEW got, got # {}, \A g \in got : g[1] \in Nat
  PROVE  First(got) \in got
PROOF
<1> DEFINE S == {g[1] : g \in got}
<1>1. S \subseteq Nat /\ S # {}  OBVIOUS
<1>2. PICK x \in S : \A y \in S : x <= y  BY <1>1, MinOf
<1>3. PICK g \in got : x = g[1]  OBVIOUS
<1>4. \A h \in got : g[1] <= h[1]  BY <1>2, <1>3
<1>5. QED  BY <1>4 DEF First

(***************************************************************************)
(* What the invariant says of types                                         *)
(***************************************************************************)
LEMMA Typing ==
  ASSUME Known
  PROVE  /\ MaxUid \in Nat /\ MaxRows \in Nat /\ QueueRuns \cap LiveRuns = {}
         /\ \A f \in Folders : uidNext[f] \in Nat /\ uidNext[f] \in 1..(MaxUid + 1)
         /\ \A f \in Folders : mark[f] \in Nat /\ mark[f] <= uidNext[f]
         /\ \A f \in Folders, m \in Mails :
              server[f][m] \in Nat /\ server[f][m] < uidNext[f]
         /\ DOMAIN row = RowIds /\ DOMAIN run = Runs
BY DEF Known, FolderAssumption, FolderInv, TypeOK, Server

\* What a step of run r does to the runs.
LEMMA Goes ==
  ASSUME Known, NEW r \in Runs, NEW s, Goto(r, s)
  PROVE  /\ run'[r] = s /\ DOMAIN run' = Runs
         /\ \A q \in Runs \ {r} : run'[q] = run[q]
BY DEF Known, FolderInv, Goto

(***************************************************************************)
(* Env keeps what the runs know                                             *)
(***************************************************************************)
LEMMA SightingKept ==
  ASSUME Known, Env, NEW f \in Folders, NEW u, NEW m \in Mails, Sighting(f, u, m)
  PROVE  Sighting(f, u, m)'
PROOF
<1>1. u \in Nat /\ 1 <= u /\ u < uidNext[f] /\ uidNext[f] \in Nat
  BY Typing DEF Sighting
<1>2. u \in 1..(uidNext'[f] - 1)  BY <1>1 DEF Env
<1>3. m \notin wandered' => server'[f][m] = u
  BY <1>1 DEF Env, Sighting
<1>4. ASSUME NEW n \in Mails, server'[f][n] = u PROVE n = m
  <2>1. server[f][n] = u  BY <1>1, <1>4 DEF Env
  <2>2. QED  BY <2>1 DEF Sighting
<1>5. QED  BY <1>2, <1>3, <1>4 DEF Sighting

\* A settled mail with a uid the folder had already given out was there before.
LEMMA SettledBefore ==
  ASSUME Known, Env, NEW f \in Folders, NEW m \in Settled'
  PROVE  /\ m \in Settled /\ m \in Mails /\ m \notin wandered'
         /\ server'[f][m] \in Nat
         /\ server'[f][m] = server[f][m] \/ server'[f][m] = uidNext[f]
PROOF
<1>1. m \in Settled /\ m \in Mails /\ m \notin wandered'  BY DEF Env, Settled
<1>2. server[f][m] \in Nat /\ uidNext[f] \in Nat  BY <1>1, Typing
<1>3. server'[f][m] \in {server[f][m], 0, uidNext[f]}  BY <1>1 DEF Env
<1>4. server[f][m] > 0 => server'[f][m] = server[f][m]  BY <1>1 DEF Env
<1>5. QED  BY <1>1, <1>2, <1>3, <1>4

LEMMA CoveredKept ==
  ASSUME Known, Env, NEW f \in Folders, NEW top \in Nat, top <= uidNext[f], NEW todo,
         Covered(f, top, todo)
  PROVE  Covered(f, top, todo)'
PROOF
<1>1. ASSUME NEW m \in Settled', server'[f][m] \in 1..(top - 1)
      PROVE server'[f][m] \in todo \/ StoredMail(m)'
  <2>1. uidNext[f] \in Nat  BY Typing
  <2>2. server'[f][m] = server[f][m] /\ m \in Settled
    BY <1>1, <2>1, SettledBefore
  <2>3. server[f][m] \in todo \/ StoredMail(m)  BY <1>1, <2>2 DEF Covered
  <2>4. QED  BY <2>2, <2>3 DEF Env, KeepsStored
<1>2. QED  BY <1>1 DEF Covered

LEMMA FoundKept ==
  ASSUME Known, Env, NEW f \in Folders, NEW next \in Nat, next <= uidNext[f], NEW todo,
         Found(f, next, todo)
  PROVE  Found(f, next, todo)'
PROOF
<1>1. uidNext[f] \in Nat /\ uidNext'[f] \in Nat /\ uidNext[f] <= uidNext'[f]
  BY Typing DEF Env
<1>2. todo \subseteq 1..(uidNext[f] - 1)  BY DEF Found
<1>3. todo \subseteq 1..(uidNext'[f] - 1)
  <2>1. ASSUME NEW u \in todo PROVE u \in 1..(uidNext'[f] - 1)
    <3>1. u \in 1..(uidNext[f] - 1)  BY <1>2
    <3>2. QED  BY <1>1, <3>1
  <2>2. QED  BY <2>1
<1>4. ASSUME NEW m \in Settled', server'[f][m] > 0
      PROVE \/ server'[f][m] \in todo \/ StoredMail(m)'
            \/ (server'[f][m] >= next /\ \A u \in todo : u < server'[f][m])
  <2>1. CASE server'[f][m] = server[f][m]
    <3>1. m \in Settled  BY SettledBefore
    <3>2. \/ server[f][m] \in todo \/ StoredMail(m)
          \/ (server[f][m] >= next /\ \A u \in todo : u < server[f][m])
      BY <3>1, <2>1, <1>4 DEF Found
    <3>3. StoredMail(m) => StoredMail(m)'  BY <1>4 DEF Env, KeepsStored
    <3>4. QED  BY <2>1, <3>2, <3>3
  <2>2. CASE server'[f][m] = uidNext[f]
    <3>1. \A u \in todo : u < uidNext[f]
      <4>1. ASSUME NEW u \in todo PROVE u < uidNext[f]
        <5>1. u \in 1..(uidNext[f] - 1)  BY <1>2
        <5>2. QED  BY <1>1, <5>1
      <4>2. QED  BY <4>1
    <3>2. uidNext[f] >= next  BY <1>1
    <3>3. QED  BY <2>2, <3>1, <3>2
  <2>3. QED  BY <2>1, <2>2, SettledBefore
<1>5. QED  BY <1>3, <1>4 DEF Found

LEMMA GottenKept ==
  ASSUME Known, Env, NEW f \in Folders, NEW top \in Nat, top <= uidNext[f], NEW got,
         Gotten(f, top, got)
  PROVE  Gotten(f, top, got)'
PROOF
<1>1. ASSUME NEW g \in got PROVE g = <<g[1], g[2]>> /\ Sighting(f, g[1], g[2])'
  <2>1. g = <<g[1], g[2]>> /\ Sighting(f, g[1], g[2])  BY DEF Gotten
  <2>2. g[2] \in Mails  BY <2>1 DEF Sighting
  <2>3. QED  BY <2>1, <2>2, SightingKept
<1>2. \A g, h \in got : g[1] = h[1] \/ g[2] = h[2] => g = h  BY DEF Gotten
<1>3. ASSUME NEW m \in Settled', server'[f][m] \in 1..(top - 1)
      PROVE <<server'[f][m], m>> \in got \/ StoredMail(m)'
  <2>1. uidNext[f] \in Nat  BY Typing
  <2>2. server'[f][m] = server[f][m] /\ m \in Settled
    BY <1>3, <2>1, SettledBefore
  <2>3. <<server[f][m], m>> \in got \/ StoredMail(m)  BY <1>3, <2>2 DEF Gotten
  <2>4. QED  BY <2>2, <2>3 DEF Env, KeepsStored
<1>4. QED  BY <1>1, <1>2, <1>3 DEF Gotten

LEMMA ShiftedKept ==
  ASSUME Known, Env, NEW f \in Folders, NEW shift, Shifted(f, shift)
  PROVE  Shifted(f, shift)'
PROOF
<1>1. ASSUME NEW s \in shift
      PROVE s[1] \in RowIds /\ row'[s[1]] # NoRow /\ Sighting(f, s[2], row[s[1]].mail)'
  <2>1. s[1] \in RowIds /\ row[s[1]] # NoRow /\ Sighting(f, s[2], row[s[1]].mail)
    BY DEF Shifted
  <2>2. row'[s[1]] # NoRow /\ row'[s[1]].mail = row[s[1]].mail  BY <2>1 DEF Env
  <2>3. row[s[1]].mail \in Mails  BY <2>1 DEF Sighting
  <2>4. Sighting(f, s[2], row[s[1]].mail)'
    <3>1. PICK m \in Mails : m = row[s[1]].mail  BY <2>3
    <3>2. Sighting(f, s[2], m)'  BY <2>1, <3>1, SightingKept
    <3>3. QED  BY <3>1, <3>2, <2>2
  <2>5. QED  BY <2>1, <2>2, <2>4
<1>2. QED  BY <1>1 DEF Shifted

(***************************************************************************)
(* What the new knowledge of a run that moves takes                         *)
(***************************************************************************)
LEMMA KnowsIdle ==
  ASSUME NEW r \in Runs, run'[r] = Idle
  PROVE  RunKnows(r)'
BY DEF RunKnows, Idle, Steps

LEMMA KnowsClose ==
  ASSUME NEW r \in Runs, NEW f \in Folders, NEW top \in 1..uidNext'[f],
         run'[r].pc = "close", run'[r].folder = f, run'[r].top = top,
         Covered(f, top, {})'
  PROVE  RunKnows(r)'
BY DEF RunKnows, Steps

LEMMA KnowsFetch ==
  ASSUME NEW r \in Runs, NEW f \in Folders, NEW top \in 1..uidNext'[f], NEW todo,
         run'[r].pc = "fetch", run'[r].folder = f, run'[r].top = top,
         run'[r].todo = todo, todo \subseteq Uids, Covered(f, top, todo)'
  PROVE  RunKnows(r)'
BY DEF RunKnows, Steps

LEMMA KnowsLook ==
  ASSUME NEW r \in Runs, NEW f \in Folders, NEW top \in 1..uidNext'[f], NEW got,
         run'[r].pc = "look", run'[r].folder = f, run'[r].top = top,
         run'[r].got = got, got # {}, Gotten(f, top, got)'
  PROVE  RunKnows(r)'
BY DEF RunKnows, Steps

LEMMA KnowsCreate ==
  ASSUME NEW r \in Runs, NEW f \in Folders, NEW top \in 1..uidNext'[f], NEW got,
         run'[r].pc = "create", run'[r].folder = f, run'[r].top = top,
         run'[r].got = got, r \in QueueRuns => got # {}, Gotten(f, top, got)'
  PROVE  RunKnows(r)'
BY DEF RunKnows, Steps

LEMMA KnowsDedupe ==
  ASSUME NEW r \in QueueRuns, NEW f \in Folders, NEW top \in 1..uidNext'[f], NEW got,
         run'[r].pc = "dedupe", run'[r].folder = f, run'[r].top = top,
         run'[r].got = got, got # {}, Gotten(f, top, got)',
         First(got)[2] \in Settled' => StoredMail(First(got)[2])'
  PROVE  RunKnows(r)'
BY DEF RunKnows, Steps

LEMMA KnowsSearch ==
  ASSUME NEW r \in Runs, NEW f \in Folders, NEW next \in 1..uidNext'[f],
         NEW from \in 0..next,
         run'[r].pc = "search", run'[r].folder = f, run'[r].next = next,
         run'[r].from = from, Covered(f, from, {})'
  PROVE  RunKnows(r)'
BY DEF RunKnows, Steps

LEMMA KnowsCompare ==
  ASSUME NEW r \in Runs, NEW f \in Folders, NEW next \in 1..uidNext'[f], NEW seen,
         run'[r].pc = "compare", run'[r].folder = f, run'[r].next = next,
         run'[r].seen = seen, Found(f, next, seen)'
  PROVE  RunKnows(r)'
BY DEF RunKnows, Steps

LEMMA KnowsPurge ==
  ASSUME NEW r \in Runs, NEW f \in Folders, NEW next \in 1..uidNext'[f], NEW todo,
         NEW drop,
         run'[r].pc = "purge", run'[r].folder = f, run'[r].next = next,
         run'[r].todo = todo, run'[r].drop = drop, Found(f, next, todo)',
         \A i \in drop :
           /\ i \in RowIds /\ row'[i] # NoRow
           /\ row'[i].mail \notin wandered' => server'[f][row'[i].mail] > 0
  PROVE  RunKnows(r)'
BY DEF RunKnows, Steps

LEMMA KnowsMove ==
  ASSUME NEW r \in Runs, NEW f \in Folders, NEW top \in 1..uidNext'[f], NEW got,
         NEW shift, run'[r].shift = shift, run'[r].pc = "move", run'[r].folder = f, run'[r].top = top,
         run'[r].got = got, Gotten(f, top, got)',
         r \in QueueRuns =>
           /\ got # {} /\ run'[r].id \in RowIds /\ row'[run'[r].id] # NoRow
           /\ row'[run'[r].id].mail = First(got)[2],
         r \in LiveRuns => Shifted(f, shift)'
  PROVE  RunKnows(r)'
BY DEF RunKnows, Steps

LEMMA KnowsDrop ==
  ASSUME NEW r \in QueueRuns, NEW f \in Folders, NEW top \in 1..uidNext'[f], NEW got,
         NEW drop,
         run'[r].pc = "drop", run'[r].folder = f, run'[r].top = top,
         run'[r].got = got, run'[r].id = drop, got # {}, Gotten(f, top, got)',
         First(got)[2] \in Settled' => StoredMail(First(got)[2])',
         \A i \in drop :
           i \in RowIds /\ row'[i] # NoRow /\ row'[i].mail \in wandered' \cup crossed'
  PROVE  RunKnows(r)'
BY DEF RunKnows, Steps

\* With nothing left of a batch its folder is read up to the batch's top.
LEMMA NothingLeft ==
  ASSUME NEW f, NEW top, Gotten(f, top, {})'
  PROVE  Covered(f, top, {})'
BY DEF Gotten, Covered

LEMMA KnowsGoOn ==
  ASSUME NEW r \in Runs, NEW f \in Folders, NEW top \in 1..uidNext'[f], NEW got,
         run[r].folder = f, run[r].top = top, run'[r] = GoOn(r, got),
         Gotten(f, top, got)'
  PROVE  RunKnows(r)'
PROOF
<1>1. run'[r].folder = f /\ run'[r].top = top /\ run'[r].got = got  BY DEF GoOn
<1>2. CASE got = {}
  <2>1. Covered(f, top, {})'  BY <1>2, NothingLeft
  <2>2. run'[r].pc = "close"  BY <1>2 DEF GoOn
  <2>3. QED  BY <1>1, <2>1, <2>2, KnowsClose
<1>3. CASE got # {}
  <2>1. run'[r].pc = "look"  BY <1>3 DEF GoOn
  <2>2. QED  BY <1>1, <1>3, <2>1, KnowsLook
<1>4. QED  BY <1>2, <1>3

\* A run that knows which mails to fetch, and up to where that reads the folder.
LEMMA KnowsFetching ==
  ASSUME Known, Env, NEW r \in Runs, NEW f \in Folders, NEW next \in 1..uidNext[f],
         NEW todo, Found(f, next, todo), run'[r] = Fetching(f, next, todo)
  PROVE  RunKnows(r)'
PROOF
<1>1. /\ uidNext[f] \in Nat /\ uidNext'[f] \in Nat /\ uidNext[f] <= uidNext'[f]
      /\ \A m \in Mails : server[f][m] \in Nat
  BY Typing DEF Env
<1>2. todo \subseteq 1..(uidNext[f] - 1)  BY DEF Found
<1>3. CASE todo = {}
  <2>1. Covered(f, next, {})
    <3>1. ASSUME NEW m \in Settled, server[f][m] \in 1..(next - 1)
          PROVE StoredMail(m)
      <4>1. m \in Mails  BY DEF Settled
      <4>2. server[f][m] > 0 /\ ~(server[f][m] >= next)  BY <3>1, <4>1, <1>1
      <4>3. QED  BY <4>2, <1>3 DEF Found
    <3>2. QED  BY <3>1 DEF Covered
  <2>2. Covered(f, next, {})'  BY <2>1, <1>1, CoveredKept
  <2>3. run'[r].pc = "close" /\ run'[r].folder = f /\ run'[r].top = next
    BY <1>3 DEF Fetching
  <2>4. next \in 1..uidNext'[f]  BY <1>1
  <2>5. QED  BY <2>2, <2>3, <2>4, KnowsClose
<1>4. CASE todo # {}
  <2>1. PICK last \in todo : last = Max(todo) /\ \A u \in todo : u <= last
    <3>1. todo \subseteq 0..uidNext[f]  BY <1>2, <1>1
    <3>2. QED  BY <3>1, <1>1, <1>4, MaxOf
  <2>2. last \in 1..(uidNext[f] - 1)  BY <1>2
  <2>3. PICK top \in 1..uidNext[f] : top = last + 1  BY <2>2, <1>1
  <2>4. Covered(f, top, todo)
    <3>1. ASSUME NEW m \in Settled, server[f][m] \in 1..(top - 1)
          PROVE server[f][m] \in todo \/ StoredMail(m)
      <4>1. m \in Mails  BY DEF Settled
      <4>2. server[f][m] > 0 /\ ~(last < server[f][m])
        BY <3>1, <4>1, <1>1, <2>2, <2>3
      <4>4. \/ server[f][m] \in todo \/ StoredMail(m)
            \/ \A u \in todo : u < server[f][m]
        BY <4>2 DEF Found
      <4>5. QED  BY <4>2, <4>4
    <3>2. QED  BY <3>1 DEF Covered
  <2>5. Covered(f, top, todo)'
    <3>1. top \in Nat /\ top <= uidNext[f]  BY <2>3, <1>1
    <3>2. QED  BY <2>4, <3>1, CoveredKept
  <2>6. /\ run'[r].pc = "fetch" /\ run'[r].folder = f /\ run'[r].top = top
        /\ run'[r].todo = todo
    BY <1>4, <2>1, <2>3 DEF Fetching
  <2>7. top \in 1..uidNext'[f]  BY <2>3, <1>1
  <2>8. todo \subseteq Uids
    <3>1. uidNext[f] - 1 <= MaxUid /\ MaxUid \in Nat  BY Typing
    <3>2. QED  BY <3>1, <1>1, <1>2 DEF Uids
  <2>9. QED  BY <2>5, <2>6, <2>7, <2>8, KnowsFetch
<1>5. QED  BY <1>3, <1>4

(***************************************************************************)
(* A run that does not move                                                 *)
(***************************************************************************)
LEMMA Bystander ==
  ASSUME Known, Env, NEW r \in Runs, run'[r] = run[r]
  PROVE  RunKnows(r)'
PROOF
<1> DEFINE f == run[r].folder
           pc == run[r].pc
<1>1. RunKnows(r)  BY DEF Known, FolderInv
<1>2. pc \in Steps /\ (pc # "idle" => f \in Folders)  BY <1>1 DEF RunKnows
<1>3. pc # "idle" => /\ uidNext[f] \in Nat /\ uidNext'[f] \in Nat
                     /\ uidNext[f] <= uidNext'[f]
  BY <1>2, Typing DEF Env
<1> HIDE DEF f, pc
<1>e. f = run[r].folder /\ pc = run[r].pc  BY DEF f, pc
<1>4. CASE pc = "idle"  BY <1>e, <1>4 DEF RunKnows, Steps
<1>5. pc # "idle" => f \in Folders  BY <1>2
<1>6. CASE pc \in {"readRow", "search", "compare", "purge"}
  <2> DEFINE next == run[r].next
  <2>1. next \in 1..uidNext[f]  BY <1>1, <1>6, <1>e DEF RunKnows
  <2>2. next \in Nat /\ next <= uidNext[f] /\ next \in 1..uidNext'[f]
    BY <2>1, <1>3, <1>6
  <2>3. CASE pc = "readRow"  BY <2>3, <2>2, <1>5, <1>e DEF RunKnows, Steps
  <2>4. CASE pc = "search"
    <3>1. run[r].from \in 0..next /\ Covered(f, run[r].from, {})
      BY <1>1, <2>4, <1>e DEF RunKnows
    <3>2. run[r].from \in Nat /\ run[r].from <= uidNext[f]  BY <3>1, <2>2, <1>3, <2>4
    <3>3. PICK from : from = run[r].from  OBVIOUS
    <3>4. PICK g \in Folders : g = f  BY <1>5, <2>4
    <3>5. Covered(g, from, {})'  BY <3>1, <3>2, <3>3, <3>4, CoveredKept
    <3>6. QED  BY <3>1, <3>3, <3>4, <3>5, <2>2, <2>4, <1>e, KnowsSearch
  <2>5. CASE pc = "compare"
    <3>1. Found(f, next, run[r].seen)  BY <1>1, <2>5, <1>e DEF RunKnows
    <3>a. PICK n \in Nat : n = next  BY <2>2
    <3>b. PICK seen : seen = run[r].seen  OBVIOUS
    <3>2. seen = run[r].seen /\ n = next  BY <3>a, <3>b
    <3>3. PICK g \in Folders : g = f  BY <1>5, <2>5
    <3>4. Found(g, n, seen)'  BY <3>1, <3>2, <3>3, <2>2, FoundKept
    <3>5. QED  BY <3>2, <3>3, <3>4, <2>2, <2>5, <1>e, KnowsCompare
  <2>6. CASE pc = "purge"
    <3>1. /\ Found(f, next, run[r].todo)
          /\ \A i \in run[r].drop :
               /\ i \in RowIds /\ row[i] # NoRow
               /\ row[i].mail \notin wandered => server[f][row[i].mail] > 0
      BY <1>1, <2>6, <1>e DEF RunKnows
    <3>a. PICK n \in Nat : n = next  BY <2>2
    <3>b. PICK todo : todo = run[r].todo  OBVIOUS
    <3>2. todo = run[r].todo /\ n = next  BY <3>a, <3>b
    <3>3. PICK g \in Folders : g = f  BY <1>5, <2>6
    <3>4. Found(g, n, todo)'  BY <3>1, <3>2, <3>3, <2>2, FoundKept
    <3>5. ASSUME NEW i \in run[r].drop
          PROVE  /\ i \in RowIds /\ row'[i] # NoRow
                 /\ row'[i].mail \notin wandered' => server'[g][row'[i].mail] > 0
      <4>1. i \in RowIds /\ row[i] # NoRow  BY <3>1
      <4>2. row'[i] # NoRow /\ row'[i].mail = row[i].mail  BY <4>1 DEF Env
      <4>3. row[i].mail \in Mails
        BY <4>1 DEF Known, FolderInv, RowsSighted, Sighting
      <4>4. row[i].mail \notin wandered' => server[g][row[i].mail] > 0
        BY <3>1, <3>3 DEF Env
      <4>5. row[i].mail \notin wandered' =>
              server'[g][row[i].mail] = server[g][row[i].mail]
        BY <4>3, <4>4 DEF Env
      <4>6. QED  BY <4>1, <4>2, <4>4, <4>5
    <3>6. QED  BY <3>2, <3>3, <3>4, <3>5, <2>2, <2>6, <1>e, KnowsPurge
  <2>7. QED  BY <1>6, <2>3, <2>4, <2>5, <2>6
<1>7. CASE pc \in {"fetch", "close"}
  <2>1. run[r].top \in 1..uidNext[f]  BY <1>1, <1>7, <1>e DEF RunKnows
  <2>2. PICK top \in Nat : top = run[r].top  BY <2>1, <1>3, <1>7
  <2>3. top <= uidNext[f] /\ top \in 1..uidNext'[f]  BY <2>1, <2>2, <1>3, <1>7
  <2>4. PICK g \in Folders : g = f  BY <1>5, <1>7
  <2>5. CASE pc = "fetch"
    <3>1. PICK todo : todo = run[r].todo  OBVIOUS
    <3>2. Covered(g, top, todo) /\ todo \subseteq Uids
      BY <1>1, <2>5, <2>2, <2>4, <3>1, <1>e DEF RunKnows
    <3>3. Covered(g, top, todo)'  BY <3>2, <2>3, <2>4, CoveredKept
    <3>4. QED  BY <3>1, <3>2, <3>3, <2>2, <2>3, <2>4, <2>5, <1>e, KnowsFetch
  <2>6. CASE pc = "close"
    <3>1. Covered(g, top, {})  BY <1>1, <2>6, <2>2, <2>4, <1>e DEF RunKnows
    <3>2. Covered(g, top, {})'  BY <3>1, <2>3, <2>4, CoveredKept
    <3>3. QED  BY <3>2, <2>2, <2>3, <2>4, <2>6, <1>e, KnowsClose
  <2>7. QED  BY <1>7, <2>5, <2>6
<1>8. CASE pc \in {"look", "move", "create", "dedupe", "drop"}
  <2>1. run[r].top \in 1..uidNext[f] /\ Gotten(f, run[r].top, run[r].got)
    BY <1>1, <1>8, <1>e DEF RunKnows
  <2>a. PICK got : got = run[r].got  OBVIOUS
  <2>b. PICK top \in Nat : top = run[r].top  BY <2>1, <1>3, <1>8
  <2>2. top = run[r].top /\ got = run[r].got  BY <2>a, <2>b
  <2>3. top <= uidNext[f] /\ top \in 1..uidNext'[f]  BY <2>1, <2>2, <1>3, <1>8
  <2>4. PICK g \in Folders : g = f  BY <1>5, <1>8
  <2>5. Gotten(g, top, got)'  BY <2>1, <2>2, <2>3, <2>4, GottenKept
  <2>6. /\ run'[r].pc = pc /\ run'[r].folder = g /\ run'[r].top = top
        /\ run'[r].got = got
    BY <2>2, <2>4, <1>e
  <2>7. (pc = "look" \/ r \in QueueRuns) => got # {}
    BY <1>1, <1>8, <2>2, <1>e DEF RunKnows
  <2>8. CASE pc = "look"  BY <2>3, <2>4, <2>5, <2>6, <2>7, <2>8, KnowsLook
  <2>9. CASE pc = "create"  BY <2>3, <2>4, <2>5, <2>6, <2>7, <2>9, KnowsCreate
  <2>10. CASE pc = "move"
    <3>1. r \in QueueRuns =>
            /\ run[r].id \in RowIds /\ row[run[r].id] # NoRow
            /\ row[run[r].id].mail = First(got)[2]
      BY <1>1, <2>10, <2>2, <1>e DEF RunKnows
    <3>2. r \in QueueRuns =>
            /\ run[r].id \in RowIds /\ row'[run[r].id] # NoRow
            /\ row'[run[r].id].mail = First(got)[2]
      BY <3>1 DEF Env
    <3>3. PICK shift : shift = run[r].shift  OBVIOUS
    <3>4. r \in LiveRuns => Shifted(g, shift)'
      <4>1. ASSUME r \in LiveRuns PROVE Shifted(g, shift)
        BY <4>1, <1>1, <2>10, <2>4, <3>3, <1>e DEF RunKnows
      <4>2. QED  BY <4>1, ShiftedKept
    <3>5. QED
      BY <3>2, <3>3, <3>4, <2>3, <2>4, <2>5, <2>6, <2>7, <2>10, KnowsMove
  <2>11. CASE pc \in {"dedupe", "drop"}
    <3>1. /\ r \in QueueRuns
          /\ First(got)[2] \in Settled => StoredMail(First(got)[2])
      BY <1>1, <2>11, <2>2, <1>e DEF RunKnows
    <3>2. First(got)[2] \in Settled' => StoredMail(First(got)[2])'
      BY <3>1 DEF Env, KeepsStored
    <3>3. CASE pc = "dedupe"
      BY <3>1, <3>2, <3>3, <2>3, <2>4, <2>5, <2>6, <2>7, KnowsDedupe
    <3>4. CASE pc = "drop"
      <4>1. \A i \in run[r].id :
              i \in RowIds /\ row[i] # NoRow /\ row[i].mail \in wandered \cup crossed
        BY <1>1, <3>4, <1>e DEF RunKnows
      <4>2. \A i \in run[r].id :
              /\ i \in RowIds /\ row'[i] # NoRow
              /\ row'[i].mail \in wandered' \cup crossed'
        BY <4>1 DEF Env
      <4>3. QED
        BY <3>1, <3>2, <3>4, <4>2, <2>3, <2>4, <2>5, <2>6, <2>7, KnowsDrop
    <3>5. QED  BY <2>11, <3>3, <3>4
  <2>12. QED  BY <1>8, <2>8, <2>9, <2>10, <2>11
<1>9. QED  BY <1>2, <1>4, <1>6, <1>7, <1>8 DEF Steps

(***************************************************************************)
(* Putting the invariant together again                                     *)
(***************************************************************************)
\* FolderInv without what the runs know and what depends on who is storing.
Data ==
  /\ server \in [Folders -> [Mails -> 0..MaxUid]]
  /\ uidNext \in [Folders -> 1..(MaxUid + 1)]
  /\ wandered \subseteq Mails /\ skipped \subseteq Mails /\ purged \subseteq Mails
  /\ crossed \subseteq Mails
  /\ unthreaded \in BOOLEAN
  /\ mark \in [Folders -> 0..(MaxUid + 1)]
  /\ \A i \in RowIds : row[i] = NoRow \/ row[i] \in Row
  /\ failures \in 0..MaxFailures
  /\ DOMAIN row = RowIds
  /\ Server /\ RowsSighted /\ UniquePlaces /\ TrashedThere
  /\ \A f \in Folders : mark[f] <= uidNext[f] /\ Covered(f, mark[f], {})

\* Of a mail that no two runs stored side by side there is one row.
Single == NoMailTwice /\ StoredByOne

LEMMA DataHolds == ASSUME Known PROVE Data
BY DEF Known, FolderInv, TypeOK, Data

LEMMA Assemble ==
  ASSUME Known, Data', Single', DOMAIN run' = Runs, \A r \in Runs : RunKnows(r)'
  PROVE  Known'
PROOF
<1>1. \A r \in Runs : run'[r].pc \in Steps  BY DEF RunKnows
<1>2. FolderAssumption  BY DEF Known
<1>3. TypeOK'  BY <1>1 DEF Data, TypeOK
<1>4. FolderInv'  BY <1>3 DEF Data, Single, FolderInv
<1>5. QED  BY <1>2, <1>4 DEF Known, FolderAssumption

LEMMA Moved ==
  ASSUME Known, Env, Data', Single', NEW r \in Runs, NEW s, Goto(r, s), RunKnows(r)'
  PROVE  Known' /\ KeepsStored
PROOF
<1>1. DOMAIN run' = Runs /\ \A q \in Runs \ {r} : run'[q] = run[q]  BY Goes
<1>2. \A q \in Runs : RunKnows(q)'
  <2>1. ASSUME NEW q \in Runs PROVE RunKnows(q)'
    <3>1. CASE q = r  BY <3>1
    <3>2. CASE q # r  BY <3>2, <1>1, Bystander
    <3>3. QED  BY <3>1, <3>2
  <2>2. QED  BY <2>1
<1>3. QED  BY <1>1, <1>2, Assemble DEF Env

LEMMA NobodyMoved ==
  ASSUME Known, Env, Data', Single', run' = run
  PROVE  Known' /\ KeepsStored
PROOF
<1>1. DOMAIN run' = Runs  BY Typing
<1>2. \A q \in Runs : RunKnows(q)'  BY Bystander
<1>3. QED  BY <1>1, <1>2, Assemble DEF Env

\* A step that creates no row and leaves the server alone.
Calm ==
  /\ UNCHANGED atServer /\ crossed \subseteq crossed'
  /\ \A i \in Stored' : i \in Stored /\ row'[i].mail = row[i].mail

LEMMA SingleHolds == ASSUME Known PROVE Single
BY DEF Known, FolderInv, Single

\* After such a step nothing is stored twice that was not before, if nobody sets
\* out to store a mail.
LEMMA SingleKept ==
  ASSUME Known, Calm, \A q \in Runs, m \in Mails : Storing(q, m)' => Storing(q, m)
  PROVE  Single'
PROOF
<1>1. server' = server /\ wandered' = wandered /\ crossed \subseteq crossed'
  BY DEF Calm, atServer
<1>2. \A i \in Stored' : i \in Stored /\ row'[i].mail = row[i].mail  BY DEF Calm
<1>3. NoMailTwice'  BY <1>1, <1>2, SingleHolds DEF Single, NoMailTwice
<1>4. ASSUME NEW r \in Runs, NEW m \in Mails, m \notin wandered' \cup crossed',
             Storing(r, m)', InSeveral(m)'
      PROVE  ~StoredMail(m)' /\ \A q \in Runs \ {r} : ~Storing(q, m)'
  <2>1. Storing(r, m) /\ m \notin wandered \cup crossed  BY <1>1, <1>4
  <2>2. InSeveral(m)  BY <1>1, <1>4 DEF InSeveral
  <2>3. ~StoredMail(m) /\ \A q \in Runs \ {r} : ~Storing(q, m)
    BY <2>1, <2>2, SingleHolds DEF Single, StoredByOne
  <2>4. ~StoredMail(m)'  BY <2>3, <1>2 DEF StoredMail
  <2>5. QED  BY <2>3, <2>4
<1>5. StoredByOne'  BY <1>4 DEF StoredByOne
<1>6. QED  BY <1>3, <1>5 DEF Single

LEMMA SameRun ==
  ASSUME NEW q, run'[q] = run[q], NEW m
  PROVE  Storing(q, m)' <=> Storing(q, m)
BY DEF Storing, At

LEMMA NotStoring ==
  ASSUME NEW q, run'[q].pc \notin {"move", "create"}, NEW m
  PROVE  ~Storing(q, m)'
BY DEF Storing, At

\* A run goes on with something else than storing a mail.
LEMMA MovedAway ==
  ASSUME Known, Env, Data', Calm, NEW r \in Runs, NEW s, Goto(r, s), RunKnows(r)',
         \A m \in Mails : ~Storing(r, m)'
  PROVE  Known' /\ KeepsStored
PROOF
<1>1. \A q \in Runs \ {r} : run'[q] = run[q]  BY Goes
<1>2. ASSUME NEW q \in Runs, NEW m \in Mails, Storing(q, m)' PROVE Storing(q, m)
  <2>1. q # r  BY <1>2
  <2>2. run'[q] = run[q]  BY <1>1, <2>1
  <2>3. QED  BY <1>2, <2>2, SameRun
<1>3. Single'  BY <1>2, SingleKept
<1>4. QED  BY <1>3, Moved

LEMMA MovedOn ==
  ASSUME Known, Env, Data', Calm, NEW r \in Runs, NEW s, Goto(r, s), RunKnows(r)',
         s.pc \notin {"move", "create"}
  PROVE  Known' /\ KeepsStored
PROOF
<1>1. run'[r].pc \notin {"move", "create"}  BY Goes
<1>2. \A m \in Mails : ~Storing(r, m)'  BY <1>1, NotStoring
<1>3. QED  BY <1>2, MovedAway

LEMMA NobodyMovedOn ==
  ASSUME Known, Env, Data', Calm, run' = run
  PROVE  Known' /\ KeepsStored
PROOF
<1>1. \A q \in Runs, m \in Mails : Storing(q, m)' => Storing(q, m)  BY SameRun
<1>2. Single'  BY <1>1, SingleKept
<1>3. QED  BY <1>2, NobodyMoved

LEMMA FetchingPc ==
  ASSUME NEW f, NEW next, NEW todo
  PROVE  Fetching(f, next, todo).pc \in {"close", "fetch"}
BY DEF Fetching

LEMMA GoOnPc ==
  ASSUME NEW r, NEW got
  PROVE  GoOn(r, got).pc \in {"close", "look"}
BY DEF GoOn

LEMMA WithPc ==
  ASSUME NEW r, NEW pc, NEW id
  PROVE  With(r, pc, id).pc = pc
BY DEF With

\* A step that only reads, or leaves a mail out.
LEMMA Reads ==
  ASSUME Known, UNCHANGED <<atServer, mark, row, purged>>,
         skipped \subseteq skipped', skipped' \subseteq Mails,
         crossed \subseteq crossed', crossed' \subseteq Mails,
         unthreaded' \in BOOLEAN, failures' \in 0..MaxFailures
  PROVE  Env /\ Data' /\ Calm
PROOF
<1>1. /\ server' = server /\ uidNext' = uidNext /\ wandered' = wandered
      /\ mark' = mark /\ row' = row /\ purged' = purged
  BY DEF atServer
<1>2. Settled' \subseteq Settled  BY <1>1 DEF Settled
<1>3. Stored' = Stored  BY <1>1 DEF Stored
<1>4. \A m : StoredMail(m)' <=> StoredMail(m)  BY <1>1, <1>3 DEF StoredMail
<1>5. Env  BY <1>1, <1>2, <1>4, Typing DEF Env, KeepsStored
<1>6. Data  BY DataHolds
<1>7. Server'  BY <1>1, <1>6 DEF Data, Server
<1>8. RowsSighted'  BY <1>1, <1>6 DEF Data, RowsSighted, Sighting
<1>9. UniquePlaces' /\ TrashedThere'
  BY <1>1, <1>3, <1>6 DEF Data, UniquePlaces, TrashedThere
<1>10. \A f \in Folders : mark'[f] <= uidNext'[f] /\ Covered(f, mark[f], {})'
  BY <1>1, <1>2, <1>4, <1>6 DEF Data, Covered
<1>11. Data'  BY <1>1, <1>6, <1>7, <1>8, <1>9, <1>10 DEF Data
<1>12. Calm  BY <1>1, <1>3 DEF Calm, atServer
<1>13. QED  BY <1>5, <1>11, <1>12

LEMMA ReadingReads ==
  ASSUME Known, Reading' = Reading
  PROVE  Env /\ Data' /\ Calm
PROOF
<1>1. unthreaded \in BOOLEAN /\ failures \in 0..MaxFailures  BY DataHolds DEF Data
<1>2. UNCHANGED <<atServer, skipped, crossed, mark, row, purged>>
      /\ unthreaded' = unthreaded /\ failures' = failures
  BY DEF Reading
<1>3. unthreaded' \in BOOLEAN /\ failures' \in 0..MaxFailures  BY <1>1, <1>2
<1>4. /\ skipped' = skipped /\ skipped \subseteq Mails
      /\ crossed' = crossed /\ crossed \subseteq Mails
  BY <1>2, DataHolds DEF Data
<1>5. QED  BY <1>2, <1>3, <1>4, Reads

(***************************************************************************)
(* Rows                                                                     *)
(***************************************************************************)
LEMMA StoredRow ==
  ASSUME NEW i, i \in Stored \/ i \in Present
  PROVE  i \in Stored /\ i \in RowIds /\ row[i] # NoRow
BY DEF Stored, Present, NoRow

LEMMA RowFacts ==
  ASSUME Known, NEW i \in RowIds, row[i] # NoRow
  PROVE  /\ row[i] \in Row
         /\ row[i].mail \in Mails /\ row[i].folder \in Folders
         /\ Sighting(row[i].folder, row[i].uid, row[i].mail)
PROOF
<1>1. row[i] \in Row  BY DataHolds DEF Data
<1>2. Sighting(row[i].folder, row[i].uid, row[i].mail)
  BY DataHolds DEF Data, RowsSighted
<1>3. QED  BY <1>1, <1>2 DEF Sighting

\* A mail that lies in one folder has its row where it was seen.
LEMMA SamePlace ==
  ASSUME Known, NEW f \in Folders, NEW u, NEW m \in Mails, Sighting(f, u, m),
         NEW j \in Stored, row[j].mail = m, m \notin wandered, ~InSeveral(m)
  PROVE  Occupied(f, u)
PROOF
<1>1. /\ j \in RowIds /\ row[j].folder \in Folders
      /\ Sighting(row[j].folder, row[j].uid, m)
  BY StoredRow, RowFacts
<1>2. PICK g \in Folders : g = row[j].folder  BY <1>1
<1>3. /\ server[f][m] = u /\ server[g][m] = row[j].uid
      /\ u \in 1..(uidNext[f] - 1) /\ row[j].uid \in 1..(uidNext[g] - 1)
  BY <1>1, <1>2 DEF Sighting
<1>4. server[f][m] > 0 /\ server[g][m] > 0  BY <1>3, Typing
<1>5. f = g  BY <1>4 DEF InSeveral
<1>6. Holds(j, f, u)  BY <1>2, <1>3, <1>5 DEF Holds
<1>7. QED  BY <1>1, <1>6 DEF Occupied

\* Who holds the place of a mail that was read and is settled, holds the mail.
LEMMA OccupiedStored ==
  ASSUME Known, NEW f \in Folders, NEW u, NEW m \in Mails, Sighting(f, u, m),
         Occupied(f, u), m \in Settled
  PROVE  StoredMail(m)
PROOF
<1>1. PICK i \in RowIds : Holds(i, f, u)  BY DEF Occupied
<1>2. i \in Stored /\ row[i].folder = f /\ row[i].uid = u  BY <1>1 DEF Holds
<1>3. Sighting(f, u, row[i].mail)  BY <1>2, StoredRow, RowFacts
<1>4. server[f][m] = u  BY DEF Sighting, Settled
<1>5. row[i].mail = m  BY <1>3, <1>4 DEF Sighting
<1>6. QED  BY <1>2, <1>5 DEF StoredMail

\* Mails that are stored, or will not be, are left out of a batch.
LEMMA LessGotten ==
  ASSUME NEW f, NEW top, NEW got, NEW done, Gotten(f, top, got)',
         \A g \in got \cap done : g[2] \in Settled' => StoredMail(g[2])'
  PROVE  Gotten(f, top, got \ done)'
PROOF
<1>1. \A g \in got : g = <<g[1], g[2]>> /\ Sighting(f, g[1], g[2])'  BY DEF Gotten
<1>2. \A g, h \in got : g[1] = h[1] \/ g[2] = h[2] => g = h  BY DEF Gotten
<1>3. ASSUME NEW m \in Settled', server'[f][m] \in 1..(top - 1)
      PROVE <<server'[f][m], m>> \in got \ done \/ StoredMail(m)'
  <2>1. <<server'[f][m], m>> \in got \/ StoredMail(m)'  BY <1>3 DEF Gotten
  <2>2. <<server'[f][m], m>> \in got \cap done => StoredMail(m)'
    BY <1>3
  <2>3. QED  BY <2>1, <2>2
<1>4. QED  BY <1>1, <1>2, <1>3 DEF Gotten

\* The first mail of a run's batch.
LEMMA FirstFacts ==
  ASSUME Known, NEW f \in Folders, NEW top, NEW got, got # {}, Gotten(f, top, got)
  PROVE  LET g == First(got) IN
         /\ g \in got /\ g = <<g[1], g[2]>>
         /\ g[2] \in Mails /\ g[1] \in Nat /\ Sighting(f, g[1], g[2])
PROOF
<1>1. \A g \in got : g = <<g[1], g[2]>> /\ Sighting(f, g[1], g[2])  BY DEF Gotten
<1>2. \A g \in got : g[1] \in Nat  BY <1>1, Typing DEF Sighting
<1>3. First(got) \in got  BY <1>2, FirstOf
<1>4. QED  BY <1>1, <1>2, <1>3 DEF Sighting

(***************************************************************************)
(* The steps that only read                                                 *)
(***************************************************************************)
LEMMA ReadRowStep ==
  ASSUME Known, NEW r \in Runs, ReadRow(r)
  PROVE  Known' /\ KeepsStored
PROOF
<1> DEFINE from == IF mark[run[r].folder] > run[r].next THEN 1 ELSE mark[run[r].folder]
<1>1. Env /\ Data' /\ Calm  BY ReadingReads DEF ReadRow
<1>2. RunKnows(r) /\ run[r].pc = "readRow"  BY DEF Known, FolderInv, ReadRow, At
<1>3. PICK f \in Folders : f = run[r].folder  BY <1>2 DEF RunKnows
<1>4. run[r].next \in 1..uidNext[f]  BY <1>2, <1>3 DEF RunKnows
<1>5. PICK next \in 1..uidNext[f] : next = run[r].next  BY <1>4
<1>6. /\ uidNext[f] \in Nat /\ uidNext'[f] \in Nat /\ uidNext[f] <= uidNext'[f]
      /\ mark[f] \in Nat /\ mark[f] <= uidNext[f]
  BY <1>1, Typing DEF Env
<1>7. next \in Nat /\ next <= uidNext[f] /\ next \in 1..uidNext'[f]  BY <1>6
<1>8. PICK low \in 0..next : low = from /\ Covered(f, low, {})
  <2>1. CASE mark[f] > next
    <3>1. Covered(f, 1, {})
      <4>1. 1..(1 - 1) = {}  OBVIOUS
      <4>2. QED  BY <4>1 DEF Covered
    <3>2. from = 1 /\ 1 \in 0..next  BY <2>1, <1>3, <1>5, <1>7
    <3>3. QED  BY <3>1, <3>2
  <2>2. CASE ~(mark[f] > next)
    <3>1. from = mark[f] /\ mark[f] \in 0..next  BY <2>2, <1>3, <1>5, <1>6, <1>7
    <3>2. Covered(f, mark[f], {})  BY DataHolds DEF Data
    <3>3. QED  BY <3>1, <3>2
  <2>3. QED  BY <2>1, <2>2
<1>9. Covered(f, low, {})'
  <2>1. low \in Nat /\ low <= uidNext[f]  BY <1>6, <1>7
  <2>2. QED  BY <2>1, <1>1, <1>8, CoveredKept
<1>10. PICK s : /\ Goto(r, s)
                /\ s = IF r \in QueueRuns /\ low = next
                       THEN [pc |-> "close", folder |-> f, top |-> next]
                       ELSE [pc |-> "search", folder |-> f, next |-> next,
                             from |-> low]
  BY <1>3, <1>5, <1>8 DEF ReadRow
<1>11. run'[r] = s  BY <1>10, Goes
<1>12. RunKnows(r)'
  <2>1. CASE r \in QueueRuns /\ low = next
    BY <2>1, <1>7, <1>9, <1>10, <1>11, KnowsClose
  <2>2. CASE ~(r \in QueueRuns /\ low = next)
    BY <2>2, <1>7, <1>9, <1>10, <1>11, KnowsSearch
  <2>3. QED  BY <2>1, <2>2
<1>13. s.pc \in {"close", "search"}  BY <1>10
<1>14. QED  BY <1>1, <1>10, <1>12, <1>13, MovedOn

LEMMA InFolderFacts ==
  ASSUME Known, NEW f \in Folders
  PROVE  /\ InFolder(f) \subseteq 1..(uidNext[f] - 1)
         /\ \A m \in Mails : server[f][m] > 0 => server[f][m] \in InFolder(f)
PROOF
<1>1. \A m \in Mails : server[f][m] \in Nat /\ server[f][m] < uidNext[f]  BY Typing
<1>2. uidNext[f] \in Nat  BY Typing
<1>3. QED  BY <1>1, <1>2 DEF InFolder

LEMMA SearchStep ==
  ASSUME Known, NEW r \in Runs, Search(r)
  PROVE  Known' /\ KeepsStored
PROOF
<1>1. Env /\ Data' /\ Calm  BY ReadingReads DEF Search
<1>2. RunKnows(r) /\ run[r].pc = "search"  BY DEF Known, FolderInv, Search, At
<1>3. PICK f \in Folders : f = run[r].folder  BY <1>2 DEF RunKnows
<1>4. run[r].next \in 1..uidNext[f] /\ run[r].from \in 0..run[r].next
      /\ Covered(f, run[r].from, {})
  BY <1>2, <1>3 DEF RunKnows
<1>5. PICK next \in 1..uidNext[f] : next = run[r].next  BY <1>4
<1>6. PICK from \in 0..next : from = run[r].from  BY <1>4, <1>5
<1>7. uidNext[f] \in Nat /\ \A m \in Mails : server[f][m] \in Nat  BY Typing
<1>8. PICK todo \in {Incremental(f, from), InFolder(f)} :
        Goto(r, Fetching(f, next, todo))
  BY <1>3, <1>5, <1>6 DEF Search
<1>9. todo \subseteq InFolder(f)
      /\ \A u \in InFolder(f) : u >= from => u \in todo
  <2>1. CASE todo = InFolder(f)  BY <2>1
  <2>2. CASE todo = Incremental(f, from)
    <3> DEFINE above == {u \in InFolder(f) : u >= from}
    <3>1. CASE above = {} /\ InFolder(f) # {}
      <4>1. todo = {Max(InFolder(f))}  BY <2>2, <3>1 DEF Incremental
      <4>2. InFolder(f) \subseteq 0..uidNext[f]  BY InFolderFacts, <1>7
      <4>3. Max(InFolder(f)) \in InFolder(f)  BY <3>1, <4>2, <1>7, MaxOf
      <4>4. QED  BY <3>1, <4>1, <4>3
    <3>2. CASE ~(above = {} /\ InFolder(f) # {})
      <4>1. todo = above  BY <2>2, <3>2 DEF Incremental
      <4>2. QED  BY <4>1
    <3>3. QED  BY <3>1, <3>2
  <2>3. QED  BY <1>8, <2>1, <2>2
<1>10. Found(f, next, todo)
  <2>1. todo \subseteq 1..(uidNext[f] - 1)  BY <1>9, InFolderFacts
  <2>2. ASSUME NEW m \in Settled, server[f][m] > 0
        PROVE server[f][m] \in todo \/ StoredMail(m)
    <3>1. m \in Mails  BY DEF Settled
    <3>2. server[f][m] \in InFolder(f) /\ server[f][m] \in Nat
      BY <2>2, <3>1, InFolderFacts, <1>7
    <3>3. CASE server[f][m] >= from  BY <3>2, <3>3, <1>9
    <3>4. CASE ~(server[f][m] >= from)
      <4>1. server[f][m] \in 1..(from - 1)  BY <2>2, <3>2, <3>4, <1>6, <1>7
      <4>2. QED  BY <4>1, <1>4, <1>6 DEF Covered
    <3>5. QED  BY <3>3, <3>4
  <2>3. QED  BY <2>1, <2>2 DEF Found
<1>11. run'[r] = Fetching(f, next, todo)  BY <1>8, Goes
<1>12. RunKnows(r)'  BY <1>1, <1>10, <1>11, KnowsFetching
<1>13. QED  BY <1>1, <1>8, <1>12, FetchingPc, MovedOn

LEMMA SearchAllStep ==
  ASSUME Known, NEW r \in Runs, SearchAll(r)
  PROVE  Known' /\ KeepsStored
PROOF
<1>1. Env /\ Data' /\ Calm  BY ReadingReads DEF SearchAll
<1>2. RunKnows(r) /\ run[r].pc = "search"  BY DEF Known, FolderInv, SearchAll, At
<1>3. PICK f \in Folders : f = run[r].folder  BY <1>2 DEF RunKnows
<1>4. PICK next \in 1..uidNext[f] : next = run[r].next  BY <1>2, <1>3 DEF RunKnows
<1>5. /\ uidNext[f] \in Nat /\ uidNext'[f] \in Nat /\ uidNext[f] <= uidNext'[f]
      /\ \A m \in Mails : server[f][m] \in Nat
  BY <1>1, Typing DEF Env
<1>6. next \in Nat /\ next <= uidNext[f] /\ next \in 1..uidNext'[f]  BY <1>5
<1>7. PICK seen : seen = InFolder(f)  OBVIOUS
<1>8. Found(f, next, seen)
  <2>1. seen \subseteq 1..(uidNext[f] - 1)  BY <1>7, InFolderFacts
  <2>2. \A m \in Settled : server[f][m] > 0 => server[f][m] \in seen
    BY <1>7, InFolderFacts DEF Settled
  <2>3. QED  BY <2>1, <2>2 DEF Found
<1>9. Found(f, next, seen)'  BY <1>1, <1>6, <1>8, FoundKept
<1>10. PICK s : Goto(r, s) /\ s = [pc |-> "compare", folder |-> f, next |-> next,
                                   seen |-> seen]
  BY <1>3, <1>4, <1>7 DEF SearchAll
<1>11. run'[r] = s  BY <1>10, Goes
<1>12. RunKnows(r)'  BY <1>6, <1>9, <1>10, <1>11, KnowsCompare
<1>13. s.pc = "compare"  BY <1>10
<1>14. QED  BY <1>1, <1>10, <1>12, <1>13, MovedOn

\* The folder of a run and the numbers it holds.
LEMMA SearchFacts ==
  ASSUME Known, NEW r \in Runs, run[r].pc \in {"compare", "purge"}
  PROVE  \E f \in Folders : f = run[r].folder /\ run[r].next \in 1..uidNext[f]
PROOF
<1>1. RunKnows(r)  BY DEF Known, FolderInv
<1>2. run[r].folder \in Folders /\ run[r].next \in 1..uidNext[run[r].folder]
  BY <1>1 DEF RunKnows
<1>3. QED  BY <1>2

LEMMA BatchFacts ==
  ASSUME Known, NEW r \in Runs,
         run[r].pc \in {"fetch", "look", "move", "create", "dedupe", "drop", "close"}
  PROVE  \E f \in Folders, top \in Nat :
           /\ f = run[r].folder /\ top = run[r].top
           /\ top \in 1..uidNext[f] /\ top <= uidNext[f]
           /\ Env => top \in 1..uidNext'[f]
           /\ run[r].pc \in {"look", "move", "create", "dedupe", "drop"} =>
                Gotten(f, top, run[r].got)
           /\ (run[r].pc = "look" \/ (r \in QueueRuns /\
                run[r].pc \in {"move", "create", "dedupe", "drop"})) => run[r].got # {}
PROOF
<1>1. RunKnows(r)  BY DEF Known, FolderInv
<1>2. PICK f \in Folders : f = run[r].folder  BY <1>1 DEF RunKnows
<1>3. run[r].top \in 1..uidNext[f]  BY <1>1, <1>2 DEF RunKnows
<1>4. uidNext[f] \in Nat  BY Typing
<1>5. PICK top \in Nat : top = run[r].top /\ top \in 1..uidNext[f]  BY <1>3, <1>4
<1>6. top <= uidNext[f]  BY <1>4, <1>5
<1>7. ASSUME Env PROVE top \in 1..uidNext'[f]
  <2>1. uidNext'[f] \in Nat /\ uidNext[f] <= uidNext'[f]  BY <1>7 DEF Env
  <2>2. QED  BY <2>1, <1>4, <1>5
<1>8. run[r].pc \in {"look", "move", "create", "dedupe", "drop"} =>
        Gotten(f, top, run[r].got)
  BY <1>1, <1>2, <1>5 DEF RunKnows
<1>9. (run[r].pc = "look" \/ (r \in QueueRuns /\
        run[r].pc \in {"move", "create", "dedupe", "drop"})) => run[r].got # {}
  BY <1>1 DEF RunKnows
<1>10. QED  BY <1>2, <1>5, <1>6, <1>7, <1>8, <1>9

LEMMA CompareStep ==
  ASSUME Known, NEW r \in Runs, Compare(r)
  PROVE  Known' /\ KeepsStored
PROOF
<1>1. Env /\ Data' /\ Calm  BY ReadingReads DEF Compare
<1>2. RunKnows(r) /\ run[r].pc = "compare"  BY DEF Known, FolderInv, Compare, At
<1>f. PICK f \in Folders : f = run[r].folder /\ run[r].next \in 1..uidNext[f]
  BY <1>2, SearchFacts
<1>n. PICK next \in 1..uidNext[f] : next = run[r].next  BY <1>f
<1>3. f = run[r].folder /\ next = run[r].next  BY <1>f, <1>n
<1>4. PICK seen : seen = run[r].seen /\ Found(f, next, seen)
  BY <1>2, <1>3 DEF RunKnows
<1>5. /\ uidNext[f] \in Nat /\ uidNext'[f] \in Nat /\ uidNext[f] <= uidNext'[f]
      /\ \A m \in Mails : server[f][m] \in Nat
  BY <1>1, Typing DEF Env
<1>6. next \in Nat /\ next <= uidNext[f] /\ next \in 1..uidNext'[f]  BY <1>5
<1>7. PICK missing : missing = {i \in Local(f) : row[i].uid \notin seen}  OBVIOUS
<1>8. PICK todo : todo = seen \ {row[i].uid : i \in Local(f)}  OBVIOUS
<1>9. \A i \in Local(f) : i \in Stored /\ i \in RowIds /\ row[i] # NoRow
                          /\ row[i].folder = f
  BY StoredRow DEF Local
<1>10. Found(f, next, todo)
  <2>1. todo \subseteq 1..(uidNext[f] - 1)  BY <1>4, <1>8 DEF Found
  <2>2. ASSUME NEW m \in Settled, server[f][m] > 0
        PROVE \/ server[f][m] \in todo \/ StoredMail(m)
              \/ (server[f][m] >= next /\ \A u \in todo : u < server[f][m])
    <3>1. CASE server[f][m] \in {row[i].uid : i \in Local(f)}
      <4>1. PICK i \in Local(f) : server[f][m] = row[i].uid  BY <3>1
      <4>2. Sighting(f, row[i].uid, row[i].mail)  BY <1>9, RowFacts
      <4>3. row[i].mail = m  BY <4>1, <4>2 DEF Sighting, Settled
      <4>4. QED  BY <1>9, <4>3 DEF StoredMail
    <3>2. CASE server[f][m] \notin {row[i].uid : i \in Local(f)}
      <4>1. \/ server[f][m] \in seen \/ StoredMail(m)
            \/ (server[f][m] >= next /\ \A u \in seen : u < server[f][m])
        BY <2>2, <1>4 DEF Found
      <4>2. QED  BY <4>1, <3>2, <1>8
    <3>3. QED  BY <3>1, <3>2
  <2>3. QED  BY <2>1, <2>2 DEF Found
<1>11. PICK s : /\ Goto(r, s)
                /\ s = IF missing = {} THEN Fetching(f, next, todo)
                       ELSE [pc |-> "purge", folder |-> f, next |-> next,
                             todo |-> todo, drop |-> missing]
  BY <1>3, <1>4, <1>7, <1>8 DEF Compare
<1>12. run'[r] = s  BY <1>11, Goes
<1>13. RunKnows(r)'
  <2>1. CASE missing = {}  BY <2>1, <1>1, <1>10, <1>11, <1>12, KnowsFetching
  <2>2. CASE missing # {}
    <3>1. Found(f, next, todo)'  BY <1>1, <1>6, <1>10, FoundKept
    <3>2. ASSUME NEW i \in missing
          PROVE  /\ i \in RowIds /\ row'[i] # NoRow
                 /\ row'[i].mail \notin wandered' => server'[f][row'[i].mail] > 0
      <4>1. i \in RowIds /\ row[i] # NoRow /\ row[i].folder = f  BY <1>7, <1>9
      <4>2. Sighting(f, row[i].uid, row[i].mail) /\ row[i].mail \in Mails
        BY <4>1, RowFacts
      <4>3. row[i].mail \notin wandered => server[f][row[i].mail] > 0
        BY <4>2, <1>5 DEF Sighting
      <4>4. row' = row /\ wandered' = wandered /\ server' = server
        BY DEF Compare, Reading, atServer
      <4>5. QED  BY <4>1, <4>3, <4>4
    <3>3. QED  BY <2>2, <3>1, <3>2, <1>6, <1>11, <1>12, KnowsPurge
  <2>3. QED  BY <2>1, <2>2
<1>14. s.pc \in {"close", "fetch", "purge"}  BY <1>11, FetchingPc
<1>15. QED  BY <1>1, <1>11, <1>13, <1>14, MovedOn

LEMMA FetchStep ==
  ASSUME Known, NEW r \in Runs, Fetch(r)
  PROVE  Known' /\ KeepsStored
PROOF
<1>1. Env /\ Data' /\ Calm  BY ReadingReads DEF Fetch
<1>2. RunKnows(r) /\ run[r].pc = "fetch"  BY DEF Known, FolderInv, Fetch, At
<1>3. PICK f \in Folders, top \in Nat :
        /\ f = run[r].folder /\ top = run[r].top /\ top <= uidNext[f]
        /\ top \in 1..uidNext'[f]
  BY <1>1, <1>2, BatchFacts
<1>4. PICK todo : /\ todo = run[r].todo /\ todo \subseteq Uids
                  /\ Covered(f, top, todo)
  BY <1>2, <1>3 DEF RunKnows
<1>5. PICK got : got = {g \in todo \X Mails : server[f][g[2]] = g[1]}  OBVIOUS
<1>6. Gotten(f, top, got)
  <2>1. ASSUME NEW g \in got PROVE g = <<g[1], g[2]>> /\ Sighting(f, g[1], g[2])
    <3>1. /\ g = <<g[1], g[2]>> /\ g[1] \in Uids /\ g[2] \in Mails
          /\ server[f][g[2]] = g[1]
      BY <1>4, <1>5
    <3>2. g[1] \in Nat /\ g[1] >= 1 /\ g[1] < uidNext[f] /\ uidNext[f] \in Nat
      BY <3>1, Typing DEF Uids
    <3>3. \A n \in Mails : server[f][n] = g[1] => n = g[2]
      BY <3>1, <3>2, DataHolds DEF Data, Server
    <3>4. QED  BY <3>1, <3>2, <3>3 DEF Sighting
  <2>2. ASSUME NEW g \in got, NEW h \in got, g[1] = h[1] \/ g[2] = h[2] PROVE g = h
    <3>1. /\ g = <<g[1], g[2]>> /\ h = <<h[1], h[2]>>
          /\ server[f][g[2]] = g[1] /\ server[f][h[2]] = h[1] /\ h[2] \in Mails
      BY <1>5
    <3>2. CASE g[2] = h[2]  BY <3>1, <3>2
    <3>3. CASE g[1] = h[1]
      <4>1. g[2] = h[2]  BY <3>1, <3>3, <2>1 DEF Sighting
      <4>2. QED  BY <4>1, <3>1, <3>3
    <3>4. QED  BY <2>2, <3>2, <3>3
  <2>3. ASSUME NEW m \in Settled, server[f][m] \in 1..(top - 1)
        PROVE <<server[f][m], m>> \in got \/ StoredMail(m)
    <3>1. server[f][m] \in todo \/ StoredMail(m)  BY <2>3, <1>4 DEF Covered
    <3>2. m \in Mails  BY DEF Settled
    <3>3. server[f][m] \in todo => <<server[f][m], m>> \in got  BY <3>2, <1>5
    <3>4. QED  BY <3>1, <3>3
  <2>4. QED  BY <2>1, <2>2, <2>3 DEF Gotten
<1>7. Gotten(f, top, got)'  BY <1>1, <1>3, <1>6, GottenKept
<1>8. PICK s : Goto(r, s) /\ s = GoOn(r, got)
  BY <1>3, <1>4, <1>5 DEF Fetch, GoOn
<1>9. run'[r] = s  BY <1>8, Goes
<1>10. RunKnows(r)'  BY <1>3, <1>7, <1>8, <1>9, KnowsGoOn
<1>11. QED  BY <1>1, <1>8, <1>10, GoOnPc, MovedOn

LEMMA DedupeStep ==
  ASSUME Known, NEW r \in Runs, Dedupe(r)
  PROVE  Known' /\ KeepsStored
PROOF
<1>1. Env /\ Data' /\ Calm  BY ReadingReads DEF Dedupe
<1>2. RunKnows(r) /\ run[r].pc = "dedupe"  BY DEF Known, FolderInv, Dedupe, At
<1>3. r \in QueueRuns  BY <1>2 DEF RunKnows
<1>4. PICK got : got = run[r].got /\ got # {}  BY <1>2, <1>3, BatchFacts
<1>5. PICK f \in Folders, top \in Nat :
        /\ f = run[r].folder /\ top = run[r].top /\ top <= uidNext[f]
        /\ top \in 1..uidNext'[f] /\ Gotten(f, top, got)
  BY <1>1, <1>2, <1>4, BatchFacts
<1>6. PICK g \in got : g = First(got)  BY <1>4, <1>5, FirstFacts
<1>7. g[2] \in Settled => StoredMail(g[2])  BY <1>2, <1>4, <1>6 DEF RunKnows
<1>8. g[2] \in Settled' => StoredMail(g[2])'  BY <1>1, <1>7 DEF Env, KeepsStored
<1>9. Gotten(f, top, got)'  BY <1>1, <1>5, GottenKept
<1>10. PICK same, keep :
         /\ same = SameMail(g[2])
         /\ keep = IF run[r].id \in same THEN run[r].id ELSE Min(same)
  OBVIOUS
<1>11. CASE Cardinality(same) <= 1
  <2>1. PICK s : Goto(r, s) /\ s = GoOn(r, got \ {g})
    BY <1>4, <1>6, <1>10, <1>11 DEF Dedupe, Rest
  <2>2. run'[r] = s  BY <2>1, Goes
  <2>3. Gotten(f, top, got \ {g})'  BY <1>8, <1>9, LessGotten
  <2>4. RunKnows(r)'  BY <1>5, <2>1, <2>2, <2>3, KnowsGoOn
  <2>5. QED  BY <1>1, <2>1, <2>4, GoOnPc, MovedOn
<1>12. CASE ~(Cardinality(same) <= 1)
  <2>1. PICK s, drop : /\ Goto(r, s) /\ s = With(r, "drop", drop)
                       /\ drop = same \ {keep}
    BY <1>4, <1>6, <1>10, <1>12 DEF Dedupe
  <2>2. run'[r] = s  BY <2>1, Goes
  <2>3. same # {}
    <3>1. SUFFICES ASSUME same = {} PROVE FALSE  OBVIOUS
    <3>2. Cardinality(same) = 0  BY <3>1, FS_EmptySet
    <3>3. QED  BY <3>2, <1>12
  <2>4. \A i \in same : i \in Stored /\ i \in RowIds /\ row[i] # NoRow
                        /\ row[i].mail = g[2]
    BY <1>10, StoredRow DEF SameMail
  <2>5. keep \in same
    <3>1. same \subseteq Nat  BY <2>4 DEF RowIds
    <3>2. Min(same) \in same  BY <2>3, <3>1, MinOf
    <3>3. QED  BY <3>2, <1>10
  <2>6. ASSUME NEW i \in drop
        PROVE /\ i \in RowIds /\ row[i] # NoRow
              /\ row[i].mail \in wandered \cup crossed
    <3>1. i \in same /\ i # keep  BY <2>1
    <3>2. QED  BY <3>1, <2>4, <2>5, SingleHolds DEF Single, NoMailTwice
  <2>7. row' = row /\ wandered' = wandered /\ crossed' = crossed
    BY DEF Dedupe, Reading, atServer
  <2>8. /\ run'[r].pc = "drop" /\ run'[r].folder = f /\ run'[r].top = top
        /\ run'[r].got = got /\ run'[r].id = drop
    BY <2>1, <2>2, <1>4, <1>5 DEF With
  <2>9. RunKnows(r)'
    BY <1>3, <1>4, <1>5, <1>6, <1>8, <1>9, <2>6, <2>7, <2>8, KnowsDrop
  <2>10. QED  BY <1>1, <2>1, <2>9, WithPc, MovedOn
<1>13. QED  BY <1>11, <1>12

(***************************************************************************)
(* The steps that write rows                                                *)
(***************************************************************************)
\* What a step that changes rows owes.
LEMMA RowsChanged ==
  ASSUME Known, UNCHANGED <<atServer, unthreaded, skipped, crossed, mark, failures>>,
         purged \subseteq purged', purged' \subseteq Mails,
         DOMAIN row' = RowIds, \A i \in RowIds : row'[i] = NoRow \/ row'[i] \in Row,
         \A i \in RowIds : row[i] # NoRow => row'[i] # NoRow /\ row'[i].mail = row[i].mail,
         KeepsStored, RowsSighted', UniquePlaces', TrashedThere'
  PROVE  Env /\ Data'
PROOF
<1>1. /\ server' = server /\ uidNext' = uidNext /\ wandered' = wandered
      /\ skipped' = skipped /\ crossed' = crossed /\ mark' = mark /\ unthreaded' = unthreaded
      /\ failures' = failures
  BY DEF atServer
<1>2. Settled' \subseteq Settled  BY <1>1 DEF Settled
<1>3. Env  BY <1>1, <1>2, Typing DEF Env
<1>4. Data  BY DataHolds
<1>5. Server'  BY <1>1, <1>4 DEF Data, Server
<1>6. \A f \in Folders : mark'[f] <= uidNext'[f] /\ Covered(f, mark[f], {})'
  <2>1. ASSUME NEW f \in Folders, NEW n, n = mark[f]
        PROVE mark'[f] <= uidNext'[f] /\ Covered(f, n, {})'
    <3>1. n \in Nat /\ n <= uidNext[f]  BY <2>1, Typing
    <3>2. Covered(f, n, {})  BY <2>1, <1>4 DEF Data
    <3>3. QED  BY <3>1, <3>2, <1>1, <1>3, <2>1, CoveredKept
  <2>2. ASSUME NEW f \in Folders
        PROVE mark'[f] <= uidNext'[f] /\ Covered(f, mark[f], {})'
    <3>1. PICK n : n = mark[f]  OBVIOUS
    <3>2. n = mark'[f]  BY <3>1, <1>1
    <3>3. QED  BY <3>1, <3>2, <2>1
  <2>3. QED  BY <2>2
<1>7. QED  BY <1>1, <1>3, <1>4, <1>5, <1>6 DEF Data

\* One row written: it takes a place that nobody else holds.
LEMMA OneRowChanged ==
  ASSUME Known, UNCHANGED <<atServer, unthreaded, skipped, crossed, mark, purged, failures>>,
         NEW i \in RowIds, NEW f \in Folders, NEW u \in Uids, NEW m \in Mails,
         NEW st \in {"present", "trashed"}, st = "trashed" => f = "trash",
         DOMAIN row' = RowIds, \A j \in RowIds \ {i} : row'[j] = row[j],
         row'[i] = [state |-> st, mail |-> m, folder |-> f, uid |-> u],
         row[i] # NoRow => i \in Stored /\ row[i].mail = m,
         Sighting(f, u, m), \A j \in RowIds : Holds(j, f, u) => j = i
  PROVE  Env /\ Data' /\ StoredMail(m)' /\ (row[i] # NoRow => Calm)
PROOF
<1>1. /\ DOMAIN row' = RowIds
      /\ row'[i] = [state |-> st, mail |-> m, folder |-> f, uid |-> u]
      /\ \A j \in RowIds \ {i} : row'[j] = row[j]
  OBVIOUS
<1>2. row'[i] \in Row /\ row'[i] # NoRow  BY <1>1 DEF Row, NoRow
<1>3. Stored' = Stored \cup {i}
  <2>1. i \in Stored'  BY <1>1 DEF Stored
  <2>2. \A j \in RowIds \ {i} : j \in Stored' <=> j \in Stored  BY <1>1 DEF Stored
  <2>3. Stored \subseteq RowIds /\ Stored' \subseteq RowIds  BY DEF Stored
  <2>4. QED  BY <2>1, <2>2, <2>3
<1>4. \A j \in Stored : row'[j].mail = row[j].mail
  <2>1. ASSUME NEW j \in Stored PROVE row'[j].mail = row[j].mail
    <3>1. j \in RowIds /\ row[j] # NoRow  BY StoredRow
    <3>2. CASE j = i  BY <3>1, <3>2, <1>1
    <3>3. CASE j # i  BY <3>1, <3>3, <1>1
    <3>4. QED  BY <3>2, <3>3
  <2>2. QED  BY <2>1
<1>5. KeepsStored
  <2>1. ASSUME NEW n, StoredMail(n) PROVE StoredMail(n)'
    <3>1. PICK j \in Stored : row[j].mail = n  BY <2>1 DEF StoredMail
    <3>2. QED  BY <3>1, <1>3, <1>4 DEF StoredMail
  <2>2. QED  BY <2>1 DEF KeepsStored
<1>6. \A j \in RowIds : row'[j] = NoRow \/ row'[j] \in Row
  BY <1>1, <1>2, DataHolds DEF Data
<1>7. \A j \in RowIds : row[j] # NoRow => row'[j] # NoRow /\ row'[j].mail = row[j].mail
  BY <1>1, <1>2
<1>8. RowsSighted'
  <2>1. server' = server /\ uidNext' = uidNext /\ wandered' = wandered  BY DEF atServer
  <2>2. ASSUME NEW j \in RowIds, row'[j] # NoRow
        PROVE Sighting(row[j].folder, row[j].uid, row[j].mail)'
    <3>1. CASE j = i  BY <3>1, <1>1, <2>1 DEF Sighting
    <3>2. CASE j # i
      <4>1. row'[j] = row[j]  BY <3>2, <1>1
      <4>2. Sighting(row[j].folder, row[j].uid, row[j].mail)  BY <4>1, <2>2, RowFacts
      <4>3. QED  BY <4>1, <4>2, <2>1 DEF Sighting
    <3>3. QED  BY <3>1, <3>2
  <2>3. QED  BY <2>2 DEF RowsSighted
<1>9. UniquePlaces'
  <2>1. ASSUME NEW j \in Stored', NEW k \in Stored',
               row'[j].folder = row'[k].folder, row'[j].uid = row'[k].uid
        PROVE j = k
    <3>1. ASSUME NEW a \in Stored', NEW b \in Stored', a = i, b # i,
                 row'[b].folder = f, row'[b].uid = u
          PROVE FALSE
      <4>1. b \in Stored /\ b \in RowIds  BY <3>1, <1>3, StoredRow
      <4>2. Holds(b, f, u)  BY <4>1, <3>1, <1>1 DEF Holds
      <4>3. QED  BY <4>1, <4>2, <3>1
    <3>2. CASE j = i  BY <3>1, <3>2, <2>1, <1>1
    <3>3. CASE k = i  BY <3>1, <3>3, <2>1, <1>1
    <3>4. CASE j # i /\ k # i
      <4>1. j \in Stored /\ k \in Stored /\ j \in RowIds /\ k \in RowIds
        BY <3>4, <1>3, StoredRow
      <4>2. row'[j] = row[j] /\ row'[k] = row[k]  BY <4>1, <3>4, <1>1
      <4>3. QED  BY <4>1, <4>2, <2>1, DataHolds DEF Data, UniquePlaces
    <3>5. QED  BY <3>2, <3>3, <3>4
  <2>2. QED  BY <2>1 DEF UniquePlaces
<1>10. StoredMail(m)'  BY <1>1, <1>3 DEF StoredMail
<1>a. TrashedThere'
  <2>1. ASSUME NEW j \in Stored', row'[j].state = "trashed" PROVE row'[j].folder = "trash"
    <3>1. CASE j = i  BY <3>1, <2>1, <1>1
    <3>2. CASE j # i
      <4>1. j \in Stored /\ row'[j] = row[j]  BY <3>2, <1>1, <1>3, StoredRow
      <4>2. QED  BY <4>1, <2>1, DataHolds DEF Data, TrashedThere
    <3>3. QED  BY <3>1, <3>2
  <2>2. QED  BY <2>1 DEF TrashedThere
<1>11. purged' = purged /\ purged \subseteq Mails  BY DataHolds DEF Data
<1>12. UNCHANGED <<atServer, unthreaded, skipped, crossed, mark, failures>>  OBVIOUS
<1>13. Env /\ Data'
  BY <1>1, <1>5, <1>6, <1>7, <1>8, <1>9, <1>a, <1>11, <1>12, RowsChanged
<1>14. ASSUME row[i] # NoRow PROVE Calm
  <2>1. Stored' = Stored  BY <1>3, <1>14
  <2>2. crossed' = crossed  OBVIOUS
  <2>3. QED  BY <2>1, <2>2, <1>4, <1>12 DEF Calm
<1>15. QED  BY <1>10, <1>13, <1>14

\* A uid that was read is one a row can have.
LEMMA SightedUid ==
  ASSUME Known, NEW f \in Folders, NEW u, NEW m, Sighting(f, u, m)
  PROVE  u \in Uids
PROOF
<1>1. uidNext[f] \in Nat /\ uidNext[f] - 1 <= MaxUid /\ MaxUid \in Nat  BY Typing
<1>2. QED  BY <1>1 DEF Sighting, Uids

LEMMA MoveRowStep ==
  ASSUME Known, NEW r \in Runs, MoveRow(r)
  PROVE  Known' /\ KeepsStored
PROOF
<1>1. /\ RunKnows(r) /\ run[r].pc = "move" /\ r \in QueueRuns
      /\ UNCHANGED <<atServer, unthreaded, skipped, crossed, mark, purged, failures>>
  BY DEF Known, FolderInv, MoveRow, At
<1>2. PICK got : got = run[r].got /\ got # {}  BY <1>1, BatchFacts
<1>3. PICK f \in Folders, top \in Nat :
        /\ f = run[r].folder /\ top = run[r].top /\ top <= uidNext[f]
        /\ Env => top \in 1..uidNext'[f]
        /\ Gotten(f, top, got)
  BY <1>1, <1>2, BatchFacts
<1>4. PICK g \in got : g = First(got) /\ g[2] \in Mails /\ Sighting(f, g[1], g[2])
  BY <1>2, <1>3, FirstFacts
<1>5. PICK i \in RowIds : i = run[r].id /\ row[i] # NoRow /\ row[i].mail = g[2]
  BY <1>1, <1>2, <1>4 DEF RunKnows
<1>6. CASE i \in Stored /\ \A j \in RowIds : Holds(j, f, g[1]) => j = i
  <2>1. PICK st \in {"present", "trashed"} :
          st = StateIn(f) /\ (st = "trashed" => f = "trash")
    BY DEF StateIn
  <2>2. /\ row' = [row EXCEPT ![i].folder = f, ![i].uid = g[1], ![i].state = st]
        /\ Goto(r, With(r, "dedupe", i))
    BY <1>2, <1>3, <1>4, <1>5, <1>6, <2>1 DEF MoveRow
  <2>3. row[i] \in Row  BY <1>5, RowFacts
  <2>4. DOMAIN row' = RowIds /\ \A j \in RowIds \ {i} : row'[j] = row[j]
    BY <2>2, Typing
  <2>t. row'[i] = [state |-> st, mail |-> g[2], folder |-> f, uid |-> g[1]]
    <3>1. row'[i] = [row[i] EXCEPT !.folder = f, !.uid = g[1], !.state = st]
      BY <2>2, Typing
    <3>2. PICK o, a, b, c, m, u :
            /\ o = row[i] /\ m = g[2] /\ u = g[1]
            /\ o = [state |-> a, mail |-> m, folder |-> b, uid |-> c]
      BY <1>5, <2>3 DEF Row
    <3>3. PICK x : x = [o EXCEPT !.folder = f, !.uid = u, !.state = st]  OBVIOUS
    <3>4. x = [state |-> st, mail |-> m, folder |-> f, uid |-> u]
      <4>1. PICK y : y = [o EXCEPT !.folder = f]  OBVIOUS
      <4>2. y = [state |-> a, mail |-> m, folder |-> f, uid |-> c]  BY <3>2, <4>1
      <4>3. PICK z : z = [y EXCEPT !.uid = u]  OBVIOUS
      <4>4. z = [state |-> a, mail |-> m, folder |-> f, uid |-> u]  BY <4>2, <4>3
      <4>5. x = [z EXCEPT !.state = st]  BY <3>3, <4>1, <4>3
      <4>6. QED  BY <4>4, <4>5
    <3>5. row'[i] = x
      <4>1. o = row[i] /\ u = g[1]  BY <3>2
      <4>2. QED  BY <3>1, <3>3, <4>1, Zenon
    <3>6. QED  BY <3>2, <3>4, <3>5
  <2>5. Env /\ Data' /\ StoredMail(g[2])' /\ Calm
    BY <1>1, <1>4, <1>5, <1>6, <2>1, <2>4, <2>t, SightedUid, OneRowChanged
  <2>6. PICK s : Goto(r, s) /\ s = With(r, "dedupe", i)  BY <2>2
  <2>7. run'[r] = s  BY <2>6, Goes
  <2>8. Gotten(f, top, got)'  BY <1>3, <2>5, GottenKept
  <2>9. RunKnows(r)'
    BY <1>1, <1>2, <1>3, <1>4, <2>5, <2>6, <2>7, <2>8, KnowsDedupe DEF With
  <2>10. QED  BY <2>5, <2>6, <2>9, WithPc, MovedOn
<1>7. CASE ~(i \in Stored /\ \A j \in RowIds : Holds(j, f, g[1]) => j = i)
  <2>1. Goto(r, Idle) /\ row' = row
    BY <1>2, <1>3, <1>4, <1>5, <1>7 DEF MoveRow
  <2>2. Reading' = Reading  BY <1>1, <2>1 DEF Reading
  <2>3. Env /\ Data' /\ Calm  BY <2>2, ReadingReads
  <2>4. RunKnows(r)'  BY <2>1, Goes, KnowsIdle
  <2>5. QED  BY <2>1, <2>3, <2>4, MovedOn DEF Idle
<1>8. QED  BY <1>6, <1>7

\* What was seen of a mail that a run is about to store.
LEMMA StoringSeen ==
  ASSUME Known, NEW r \in Runs, NEW m, Storing(r, m)
  PROVE  \E f \in Folders : \E u : Sighting(f, u, m)
PROOF
<1>1. run[r].pc \in {"move", "create"}  BY DEF Storing, At
<1>2. PICK got : got = run[r].got  OBVIOUS
<1>3. PICK f \in Folders, top \in Nat : Gotten(f, top, got)  BY <1>1, <1>2, BatchFacts
<1>4. CASE r \in QueueRuns
  <2>1. got # {}  BY <1>1, <1>2, <1>4, BatchFacts
  <2>2. First(got)[2] = m  BY <1>2, <1>4 DEF Storing
  <2>3. QED  BY <1>3, <2>1, <2>2, FirstFacts
<1>5. CASE r \notin QueueRuns
  <2>1. PICK g \in got : g[2] = m  BY <1>2, <1>5 DEF Storing
  <2>2. QED  BY <1>3, <2>1 DEF Gotten
<1>6. QED  BY <1>4, <1>5

\* Run r has created the rows of the mails `new', which it was about to store.
LEMMA CreatedSingle ==
  ASSUME Known, UNCHANGED <<atServer, crossed>>, NEW r \in Runs, NEW f \in Folders, NEW new,
         \A h \in new : Sighting(f, h[1], h[2]) /\ ~Occupied(f, h[1]) /\ Storing(r, h[2]),
         \A h, k \in new : h[2] = k[2] => h = k,
         \A j \in Stored' : \/ j \in Stored /\ row'[j] = row[j]
                            \/ \E h \in new : /\ row'[j].mail = h[2]
                                             /\ row'[j].folder = f /\ row'[j].uid = h[1],
         \A m \in Mails : ~Storing(r, m)',
         \A q \in Runs \ {r} : run'[q] = run[q],
         UniquePlaces'
  PROVE  Single'
PROOF
<1> DEFINE Old(j) == j \in Stored /\ row'[j] = row[j]
           New(j, h) == row'[j].mail = h[2] /\ row'[j].folder = f /\ row'[j].uid = h[1]
<1>1. server' = server /\ wandered' = wandered /\ crossed' = crossed  BY DEF atServer
<1>2. \A j \in Stored' : Old(j) \/ \E h \in new : New(j, h)  OBVIOUS
<1>3. \A m : InSeveral(m)' <=> InSeveral(m)  BY <1>1 DEF InSeveral
<1>4. ASSUME NEW h \in new, h[2] \notin wandered \cup crossed, NEW j \in Stored,
             row[j].mail = h[2]
      PROVE  FALSE
  <2>1. Sighting(f, h[1], h[2]) /\ h[2] \in Mails  BY DEF Sighting
  <2>2. CASE InSeveral(h[2])
    <3>1. ~StoredMail(h[2])  BY <2>1, <2>2, <1>4, SingleHolds DEF Single, StoredByOne
    <3>2. QED  BY <3>1, <1>4 DEF StoredMail
  <2>3. CASE ~InSeveral(h[2])  BY <2>1, <2>3, <1>4, SamePlace
  <2>4. QED  BY <2>2, <2>3
<1>5. ASSUME NEW i \in Stored', NEW j \in Stored', row'[i].mail = row'[j].mail,
             row'[i].mail \notin wandered' \cup crossed'
      PROVE  i = j
  <2>1. CASE Old(i) /\ Old(j)  BY <2>1, <1>1, <1>5, SingleHolds DEF Single, NoMailTwice
  <2>2. ASSUME NEW h \in new, New(i, h), Old(j) PROVE FALSE
    <3>1. j \in Stored /\ row[j].mail = h[2] /\ h[2] \notin wandered \cup crossed
      BY <2>2, <1>1, <1>5
    <3>2. QED  BY <3>1, <1>4
  <2>3. ASSUME NEW h \in new, New(j, h), Old(i) PROVE FALSE
    <3>1. i \in Stored /\ row[i].mail = h[2] /\ h[2] \notin wandered \cup crossed
      BY <2>3, <1>1, <1>5
    <3>2. QED  BY <3>1, <1>4
  <2>4. ASSUME NEW h \in new, NEW k \in new, New(i, h), New(j, k) PROVE i = j
    <3>1. h[2] = k[2]  BY <2>4, <1>5
    <3>2. h = k  BY <3>1
    <3>3. QED  BY <3>2, <2>4, <1>5 DEF UniquePlaces
  <2>5. QED  BY <1>2, <2>1, <2>2, <2>3, <2>4
<1>6. NoMailTwice'  BY <1>5 DEF NoMailTwice
<1>7. ASSUME NEW q \in Runs, NEW m \in Mails, Storing(q, m)'
      PROVE  q # r /\ Storing(q, m)
  <2>1. q # r  BY <1>7
  <2>2. QED  BY <2>1, <1>7, SameRun
<1>8. ASSUME NEW q \in Runs, NEW m \in Mails, m \notin wandered' \cup crossed',
             Storing(q, m)', InSeveral(m)'
      PROVE  ~StoredMail(m)' /\ \A p \in Runs \ {q} : ~Storing(p, m)'
  <2>1. q # r /\ Storing(q, m)  BY <1>7, <1>8
  <2>2. ~StoredMail(m) /\ \A p \in Runs \ {q} : ~Storing(p, m)
    BY <2>1, <1>1, <1>3, <1>8, SingleHolds DEF Single, StoredByOne
  <2>3. \A h \in new : h[2] # m  BY <2>1, <2>2
  <2>4. ~StoredMail(m)'
    <3>1. SUFFICES ASSUME NEW j \in Stored', row'[j].mail = m PROVE FALSE
      BY DEF StoredMail
    <3>2. Old(j)  BY <3>1, <1>2, <2>3
    <3>3. QED  BY <3>1, <3>2, <2>2 DEF StoredMail
  <2>5. QED  BY <2>2, <2>4, <1>7
<1>9. StoredByOne'  BY <1>8 DEF StoredByOne
<1>10. QED  BY <1>6, <1>9 DEF Single

LEMMA CreateStep ==
  ASSUME Known, NEW r \in Runs, Create(r)
  PROVE  Known' /\ KeepsStored
PROOF
<1>1. /\ run[r].pc = "create" /\ r \in QueueRuns /\ Free # {}
      /\ UNCHANGED <<atServer, unthreaded, skipped, crossed, mark, purged, failures>>
  BY DEF Create, At
<1>2. PICK got : got = run[r].got /\ got # {}  BY <1>1, BatchFacts
<1>3. PICK f \in Folders, top \in Nat :
        /\ f = run[r].folder /\ top = run[r].top /\ top <= uidNext[f]
        /\ Env => top \in 1..uidNext'[f]
        /\ Gotten(f, top, got)
  BY <1>1, <1>2, BatchFacts
<1>4. PICK g \in got : g = First(got) /\ g[2] \in Mails /\ Sighting(f, g[1], g[2])
  BY <1>2, <1>3, FirstFacts
<1>5. CASE ~Occupied(f, g[1])
  <2>1. PICK i \in Free : i = Min(Free)
    <3>1. Free \subseteq Nat  BY DEF Free, RowIds
    <3>2. QED  BY <1>1, <3>1, MinOf
  <2>2. /\ row' = [row EXCEPT ![i] = Made(g[2], f, g[1])]
        /\ Goto(r, With(r, "dedupe", i))
    BY <1>2, <1>3, <1>4, <1>5, <2>1 DEF Create
  <2>3. i \in RowIds /\ row[i] = NoRow  BY DEF Free
  <2>4. /\ DOMAIN row' = RowIds /\ \A j \in RowIds \ {i} : row'[j] = row[j]
        /\ row'[i] = [state |-> "present", mail |-> g[2], folder |-> f, uid |-> g[1]]
    BY <2>2, <2>3, Typing DEF Made
  <2>5. \A j \in RowIds : Holds(j, f, g[1]) => j = i  BY <1>5 DEF Occupied
  <2>6. Env /\ Data' /\ StoredMail(g[2])'
    BY <1>1, <1>4, <2>3, <2>4, <2>5, SightedUid, OneRowChanged
  <2>7. PICK s : Goto(r, s) /\ s = With(r, "dedupe", i)  BY <2>2
  <2>8. run'[r] = s  BY <2>7, Goes
  <2>9. Gotten(f, top, got)'  BY <1>3, <2>6, GottenKept
  <2>10. RunKnows(r)'
    BY <1>1, <1>2, <1>3, <1>4, <2>6, <2>7, <2>8, <2>9, KnowsDedupe DEF With
  <2>11. Single'
    <3>1. PICK new : new = {g}  OBVIOUS
    <3>2. \A h \in new : Sighting(f, h[1], h[2]) /\ ~Occupied(f, h[1]) /\ Storing(r, h[2])
      BY <3>1, <1>1, <1>2, <1>4, <1>5 DEF Storing, At
    <3>3. \A h, k \in new : h[2] = k[2] => h = k  BY <3>1
    <3>4. \A j \in Stored' : \/ j \in Stored /\ row'[j] = row[j]
                             \/ \E h \in new : /\ row'[j].mail = h[2]
                                              /\ row'[j].folder = f /\ row'[j].uid = h[1]
      BY <2>3, <2>4, <3>1 DEF Stored
    <3>5. \A m \in Mails : ~Storing(r, m)'
      <4>1. run'[r].pc = "dedupe"  BY <2>7, <2>8, WithPc
      <4>2. QED  BY <4>1, NotStoring
    <3>6. \A q \in Runs \ {r} : run'[q] = run[q]  BY <2>7, Goes
    <3>7. UniquePlaces'  BY <2>6 DEF Data
    <3>8. UNCHANGED <<atServer, crossed>>  BY <1>1
    <3>9. QED  BY <3>2, <3>3, <3>4, <3>5, <3>6, <3>7, <3>8, CreatedSingle
  <2>12. QED  BY <2>6, <2>7, <2>10, <2>11, Moved
<1>6. CASE Occupied(f, g[1])
  <2>1. Goto(r, Idle) /\ row' = row  BY <1>2, <1>3, <1>4, <1>6 DEF Create
  <2>2. Reading' = Reading  BY <1>1, <2>1 DEF Reading
  <2>3. Env /\ Data' /\ Calm  BY <2>2, ReadingReads
  <2>4. RunKnows(r)'  BY <2>1, Goes, KnowsIdle
  <2>5. QED  BY <2>1, <2>3, <2>4, MovedOn DEF Idle
<1>7. QED  BY <1>5, <1>6

\* Rows deleted: the mails of the rows that go are not settled any more.
LEMMA RowsDeleted ==
  ASSUME Known, UNCHANGED <<atServer, unthreaded, skipped, crossed, mark, failures>>,
         purged \subseteq purged', purged' \subseteq Mails,
         NEW ids, row' = Without(ids),
         \A i \in ids : i \in RowIds /\ row[i] # NoRow /\ row[i].mail \notin Settled'
  PROVE  Env /\ Data' /\ Calm
PROOF
<1>1. DOMAIN row' = RowIds  BY DEF Without
<1>2. \A i \in RowIds \ ids : row'[i] = row[i]  BY DEF Without
<1>3. ASSUME NEW i \in RowIds, i \in ids
      PROVE  /\ row'[i].state = "deleted" /\ row'[i].mail = row[i].mail
             /\ row'[i].folder = row[i].folder /\ row'[i].uid = row[i].uid
             /\ row'[i] \in Row /\ row'[i] # NoRow /\ row[i] # NoRow
  <2>1. row[i] # NoRow /\ row[i] \in Row  BY <1>3, RowFacts
  <2>2. PICK o : o = row[i]  OBVIOUS
  <2>3. row'[i] = [o EXCEPT !.state = "deleted"]  BY <1>3, <2>1, <2>2 DEF Without
  <2>4. o = [state |-> o.state, mail |-> o.mail, folder |-> o.folder, uid |-> o.uid]
        /\ o.mail \in Mails /\ o.folder \in Folders /\ o.uid \in Uids
    BY <2>1, <2>2 DEF Row
  <2>5. row'[i] = [state |-> "deleted", mail |-> o.mail, folder |-> o.folder,
                   uid |-> o.uid]
    BY <2>3, <2>4
  <2>6. row'[i] \in Row /\ row'[i] # NoRow  BY <2>4, <2>5 DEF Row, NoRow
  <2>7. QED  BY <2>1, <2>2, <2>5, <2>6
<1>4. \A i \in RowIds : row'[i] = NoRow \/ row'[i] \in Row
  BY <1>2, <1>3, DataHolds DEF Data
<1>5. \A i \in RowIds : row[i] # NoRow => row'[i] # NoRow /\ row'[i].mail = row[i].mail
  BY <1>2, <1>3
<1>6. Stored' = Stored \ ids
  <2>1. ASSUME NEW i \in RowIds PROVE i \in Stored' <=> i \in Stored \ ids
    <3>1. CASE i \in ids  BY <3>1, <1>3 DEF Stored
    <3>2. CASE i \notin ids  BY <3>2, <1>2 DEF Stored
    <3>3. QED  BY <3>1, <3>2
  <2>2. Stored \subseteq RowIds /\ Stored' \subseteq RowIds  BY DEF Stored
  <2>3. QED  BY <2>1, <2>2
<1>7. KeepsStored
  <2>1. ASSUME NEW m \in Settled', StoredMail(m) PROVE StoredMail(m)'
    <3>1. PICK i \in Stored : row[i].mail = m  BY <2>1 DEF StoredMail
    <3>2. i \in RowIds /\ i \notin ids  BY <2>1, <3>1, StoredRow
    <3>3. QED  BY <3>1, <3>2, <1>2, <1>6 DEF StoredMail
  <2>2. QED  BY <2>1 DEF KeepsStored
<1>8. \A i \in RowIds : row'[i] # NoRow =>
        /\ row[i] # NoRow /\ row'[i].mail = row[i].mail
        /\ row'[i].folder = row[i].folder /\ row'[i].uid = row[i].uid
  BY <1>2, <1>3
<1>9. RowsSighted'
  <2>1. server' = server /\ uidNext' = uidNext /\ wandered' = wandered  BY DEF atServer
  <2>2. ASSUME NEW i \in RowIds, row'[i] # NoRow
        PROVE Sighting(row[i].folder, row[i].uid, row[i].mail)'
    <3>1. Sighting(row[i].folder, row[i].uid, row[i].mail)  BY <1>8, <2>2, RowFacts
    <3>2. QED  BY <3>1, <1>8, <2>1, <2>2 DEF Sighting
  <2>3. QED  BY <2>2 DEF RowsSighted
<1>10. UniquePlaces'
  <2>1. ASSUME NEW i \in Stored' PROVE i \in Stored /\ row'[i] = row[i]
    BY <1>2, <1>6, StoredRow
  <2>2. QED  BY <2>1, DataHolds DEF Data, UniquePlaces
<1>11. UNCHANGED <<atServer, unthreaded, skipped, crossed, mark, failures>>  OBVIOUS
<1>12. TrashedThere'
  <2>1. ASSUME NEW i \in Stored' PROVE i \in Stored /\ row'[i] = row[i]
    BY <1>2, <1>6, StoredRow
  <2>2. QED  BY <2>1, DataHolds DEF Data, TrashedThere
<1>13. Env /\ Data'
  BY <1>1, <1>4, <1>5, <1>7, <1>9, <1>10, <1>11, <1>12, RowsChanged
<1>14. Calm
  <2>1. \A i \in Stored' : i \in Stored /\ row'[i].mail = row[i].mail
    BY <1>5, <1>6, StoredRow
  <2>2. crossed' = crossed  OBVIOUS
  <2>3. QED  BY <2>1, <2>2, <1>11 DEF Calm
<1>15. QED  BY <1>13, <1>14

LEMMA PurgeStep ==
  ASSUME Known, NEW r \in Runs, Purge(r)
  PROVE  Known' /\ KeepsStored
PROOF
<1>1. /\ RunKnows(r) /\ run[r].pc = "purge"
      /\ UNCHANGED <<atServer, unthreaded, skipped, crossed, mark, failures>>
  BY DEF Known, FolderInv, Purge, At
<1>2. PICK f \in Folders : f = run[r].folder /\ run[r].next \in 1..uidNext[f]
  BY <1>1, SearchFacts
<1>3. PICK next \in 1..uidNext[f] : next = run[r].next  BY <1>2
<1>4. PICK todo : todo = run[r].todo /\ Found(f, next, todo)
  BY <1>1, <1>2, <1>3 DEF RunKnows
<1>5. PICK drop : drop = run[r].drop  OBVIOUS
<1>6. \A i \in drop : /\ i \in RowIds /\ row[i] # NoRow
                      /\ row[i].mail \notin wandered => server[f][row[i].mail] > 0
  BY <1>1, <1>2, <1>5 DEF RunKnows
<1>7. /\ row' = Without(drop)
      /\ purged' = purged \cup {m \in Mails : /\ \E i \in drop : row[i].mail = m
                                             /\ server[f][m] > 0}
      /\ Goto(r, Fetching(f, next, todo))
  BY <1>2, <1>3, <1>4, <1>5 DEF Purge
<1>8. purged \subseteq purged' /\ purged' \subseteq Mails
  BY <1>7, DataHolds DEF Data
<1>9. ASSUME NEW i \in drop
      PROVE i \in RowIds /\ row[i] # NoRow /\ row[i].mail \notin Settled'
  <2>1. i \in RowIds /\ row[i] # NoRow /\ row[i].mail \in Mails  BY <1>6, RowFacts
  <2>2. CASE row[i].mail \in wandered
    <3>1. wandered' = wandered  BY <1>1 DEF atServer
    <3>2. QED  BY <2>1, <2>2, <3>1 DEF Settled
  <2>3. CASE row[i].mail \notin wandered
    <3>1. row[i].mail \in purged'  BY <2>1, <2>3, <1>6, <1>7
    <3>2. QED  BY <2>1, <3>1 DEF Settled
  <2>4. QED  BY <2>2, <2>3
<1>10. Env /\ Data' /\ Calm  BY <1>1, <1>7, <1>8, <1>9, RowsDeleted
<1>11. PICK s : Goto(r, s) /\ s = Fetching(f, next, todo)  BY <1>7
<1>12. run'[r] = s  BY <1>11, Goes
<1>13. RunKnows(r)'  BY <1>4, <1>10, <1>11, <1>12, KnowsFetching
<1>14. QED  BY <1>10, <1>11, <1>13, FetchingPc, MovedOn

LEMMA DropStep ==
  ASSUME Known, NEW r \in Runs, Drop(r)
  PROVE  Known' /\ KeepsStored
PROOF
<1>1. /\ RunKnows(r) /\ run[r].pc = "drop"
      /\ UNCHANGED <<atServer, unthreaded, skipped, crossed, mark, purged, failures>>
  BY DEF Known, FolderInv, Drop, At
<1>2. r \in QueueRuns  BY <1>1 DEF RunKnows
<1>3. PICK got : got = run[r].got /\ got # {}  BY <1>1, <1>2, BatchFacts
<1>4. PICK f \in Folders, top \in Nat :
        /\ f = run[r].folder /\ top = run[r].top /\ top <= uidNext[f]
        /\ Env => top \in 1..uidNext'[f]
        /\ Gotten(f, top, got)
  BY <1>1, <1>3, BatchFacts
<1>5. PICK g \in got : g = First(got)  BY <1>3, <1>4, FirstFacts
<1>6. g[2] \in Settled => StoredMail(g[2])  BY <1>1, <1>3, <1>5 DEF RunKnows
<1>7. PICK drop : drop = run[r].id
                  /\ \A i \in drop : i \in RowIds /\ row[i] # NoRow
                                     /\ row[i].mail \in wandered \cup crossed
  BY <1>1 DEF RunKnows
<1>8. /\ row' = Without(drop)
      /\ \E s : Goto(r, s) /\ s = GoOn(r, got \ {g})
  BY <1>3, <1>5, <1>7 DEF Drop, Rest
<1>9. \A i \in drop : row[i].mail \notin Settled'
  BY <1>1, <1>7 DEF Settled, atServer
<1>10. purged \subseteq purged' /\ purged' \subseteq Mails
  BY <1>1, DataHolds DEF Data
<1>11. UNCHANGED <<atServer, unthreaded, skipped, crossed, mark, failures>>  BY <1>1
<1>12. Env /\ Data' /\ Calm  BY <1>7, <1>8, <1>9, <1>10, <1>11, RowsDeleted
<1>13. PICK s : Goto(r, s) /\ s = GoOn(r, got \ {g})  BY <1>8
<1>14. run'[r] = s  BY <1>13, Goes
<1>15. g[2] \in Settled' => StoredMail(g[2])'  BY <1>6, <1>12 DEF Env, KeepsStored
<1>16. Gotten(f, top, got)'  BY <1>4, <1>12, GottenKept
<1>17. Gotten(f, top, got \ {g})'  BY <1>15, <1>16, LessGotten
<1>18. RunKnows(r)'  BY <1>4, <1>12, <1>13, <1>14, <1>17, KnowsGoOn
<1>19. QED  BY <1>12, <1>13, <1>18, GoOnPc, MovedOn

\* A mail that lies in several folders has no row in the trash.
LEMMA NotTrashed ==
  ASSUME Known, NEW m \in Mails, m \notin wandered, InSeveral(m), SameMail(m) = {}
  PROVE  ~StoredMail(m)
PROOF
<1>1. SUFFICES ASSUME NEW i \in Stored, row[i].mail = m PROVE FALSE
  BY DEF StoredMail
<1>2. row[i].state = "trashed" /\ row[i].folder = "trash"
  <2>1. i \notin Present  BY <1>1 DEF SameMail
  <2>2. row[i].state = "trashed"  BY <2>1 DEF Stored, Present
  <2>3. QED  BY <2>2, DataHolds DEF Data, TrashedThere
<1>3. PICK t \in Folders : t = "trash" /\ server[t][m] > 0
  <2>1. row[i].folder \in Folders /\ Sighting(row[i].folder, row[i].uid, m)
    BY <1>1, StoredRow, RowFacts
  <2>2. PICK t \in Folders : t = row[i].folder  BY <2>1
  <2>3. server[t][m] \in 1..(uidNext[t] - 1)  BY <2>1, <2>2 DEF Sighting
  <2>4. server[t][m] > 0  BY <2>3, Typing
  <2>5. QED  BY <2>2, <2>4, <1>2
<1>4. PICK f \in Folders, g \in Folders : f # g /\ server[f][m] > 0 /\ server[g][m] > 0
  BY DEF InSeveral
<1>5. t = f /\ t = g  BY <1>3, <1>4, DataHolds DEF Data, Server, Apart
<1>6. QED  BY <1>4, <1>5

\* Run r has found no row of the mails `ms' and sets out to store them.
LEMMA LookedSingle ==
  ASSUME Known, UNCHANGED <<atServer, row>>, NEW r \in Runs, NEW ms,
         \A m \in ms : SameMail(m) = {},
         crossed' = crossed \cup Crossing(r, ms),
         \A m \in Mails : Storing(r, m)' => m \in ms,
         \A q \in Runs \ {r} : run'[q] = run[q]
  PROVE  Single'
PROOF
<1>1. server' = server /\ wandered' = wandered /\ row' = row /\ crossed \subseteq crossed'
  BY DEF atServer
<1>2. Stored' = Stored  BY <1>1 DEF Stored
<1>3. NoMailTwice'  BY <1>1, <1>2, SingleHolds DEF Single, NoMailTwice
<1>4. \A m : (InSeveral(m)' <=> InSeveral(m)) /\ (StoredMail(m)' <=> StoredMail(m))
  BY <1>1, <1>2 DEF InSeveral, StoredMail
<1>5. \A q \in Runs \ {r} : \A m \in Mails : Storing(q, m)' <=> Storing(q, m)
  BY SameRun
<1>6. ASSUME NEW m \in ms, InSeveral(m), m \notin crossed'
      PROVE  \A q \in Runs \ {r} : ~Storing(q, m)
  BY <1>6 DEF Crossing
<1>7. ASSUME NEW q \in Runs, NEW m \in Mails, m \notin wandered' \cup crossed',
             Storing(q, m)', InSeveral(m)'
      PROVE  ~StoredMail(m)' /\ \A p \in Runs \ {q} : ~Storing(p, m)'
  <2>1. InSeveral(m) /\ m \notin wandered /\ m \notin crossed /\ m \notin crossed'
    BY <1>1, <1>4, <1>7
  <2>2. CASE q = r
    <3>1. m \in ms  BY <1>7, <2>2
    <3>2. ~StoredMail(m)  BY <2>1, <3>1, NotTrashed
    <3>3. \A p \in Runs \ {r} : ~Storing(p, m)  BY <2>1, <3>1, <1>6
    <3>4. QED  BY <2>2, <3>2, <3>3, <1>4, <1>5
  <2>3. CASE q # r
    <3>1. Storing(q, m)  BY <2>3, <1>5, <1>7
    <3>2. ~StoredMail(m) /\ \A p \in Runs \ {q} : ~Storing(p, m)
      BY <2>1, <3>1, SingleHolds DEF Single, StoredByOne
    <3>3. ~Storing(r, m)'
      <4>1. SUFFICES ASSUME Storing(r, m)' PROVE FALSE  OBVIOUS
      <4>2. m \in ms  BY <4>1
      <4>3. QED  BY <4>2, <2>1, <2>3, <3>1, <1>6
    <3>4. QED  BY <3>2, <3>3, <1>4, <1>5
  <2>4. QED  BY <2>2, <2>3
<1>8. StoredByOne'  BY <1>7 DEF StoredByOne
<1>9. QED  BY <1>3, <1>8 DEF Single

LEMMA LookStep ==
  ASSUME Known, NEW r \in Runs, Look(r)
  PROVE  Known' /\ KeepsStored
PROOF
<1>1. /\ run[r].pc = "look" /\ r \in QueueRuns
      /\ UNCHANGED <<atServer, unthreaded, mark, row, purged, failures>>
  BY DEF Look, At
<1>2. PICK got : got = run[r].got /\ got # {}  BY <1>1, BatchFacts
<1>3. PICK f \in Folders, top \in Nat :
        /\ f = run[r].folder /\ top = run[r].top /\ top <= uidNext[f]
        /\ Env => top \in 1..uidNext'[f]
        /\ Gotten(f, top, got)
  BY <1>1, <1>2, BatchFacts
<1>4. PICK g \in got : g = First(got) /\ g[2] \in Mails /\ Sighting(f, g[1], g[2])
  BY <1>2, <1>3, FirstFacts
<1>5. /\ \/ /\ Occupied(f, g[1])
            /\ Goto(r, GoOn(r, got \ {g})) /\ UNCHANGED <<skipped, crossed>>
         \/ /\ ~Occupied(f, g[1])
            /\ \E i \in SameMail(g[2]) :
                 Goto(r, With(r, IF TakesOver(f, i) THEN "move" ELSE "dedupe", i))
            /\ UNCHANGED <<skipped, crossed>>
         \/ /\ skipped' = skipped \cup {g[2]}
            /\ Goto(r, GoOn(r, got \ {g})) /\ UNCHANGED crossed
         \/ /\ SameMail(g[2]) = {} /\ crossed' = crossed \cup Crossing(r, {g[2]})
            /\ Goto(r, With(r, "create", 0)) /\ UNCHANGED skipped
  BY <1>2, <1>3, <1>4 DEF Look, Rest
<1>6. /\ skipped \subseteq skipped' /\ skipped' \subseteq Mails
      /\ crossed \subseteq crossed' /\ crossed' \subseteq Mails
  <2>1. skipped \subseteq Mails /\ crossed \subseteq Mails  BY DataHolds DEF Data
  <2>2. Crossing(r, {g[2]}) \subseteq Mails  BY <1>4 DEF Crossing
  <2>3. QED  BY <1>4, <1>5, <2>1, <2>2
<1>7. unthreaded' \in BOOLEAN /\ failures' \in 0..MaxFailures
  BY <1>1, DataHolds DEF Data
<1>8. Env /\ Data' /\ Calm  BY <1>1, <1>6, <1>7, Reads
<1>9. Gotten(f, top, got)'  BY <1>3, <1>8, GottenKept
<1>10. ASSUME Goto(r, GoOn(r, got \ {g})), g[2] \in Settled' => StoredMail(g[2])'
       PROVE  Known' /\ KeepsStored
  <2>1. PICK s : Goto(r, s) /\ s = GoOn(r, got \ {g})  BY <1>10
  <2>2. run'[r] = s  BY <2>1, Goes
  <2>3. Gotten(f, top, got \ {g})'  BY <1>9, <1>10, LessGotten
  <2>4. RunKnows(r)'  BY <1>3, <1>8, <2>1, <2>2, <2>3, KnowsGoOn
  <2>5. QED  BY <1>8, <2>1, <2>4, GoOnPc, MovedOn
<1>11. CASE Occupied(f, g[1]) /\ Goto(r, GoOn(r, got \ {g}))
  <2>1. g[2] \in Settled => StoredMail(g[2])  BY <1>4, <1>11, OccupiedStored
  <2>2. g[2] \in Settled' => StoredMail(g[2])'  BY <2>1, <1>8 DEF Env, KeepsStored
  <2>3. QED  BY <2>2, <1>10, <1>11
<1>12. CASE skipped' = skipped \cup {g[2]} /\ Goto(r, GoOn(r, got \ {g}))
  BY <1>10, <1>12 DEF Settled
<1>13. ASSUME NEW i \in SameMail(g[2]), NEW pc \in {"move", "dedupe"},
              Goto(r, With(r, pc, i))
       PROVE  Known' /\ KeepsStored
  <2>1. i \in Stored /\ i \in RowIds /\ row[i] # NoRow /\ row[i].mail = g[2]
    BY StoredRow DEF SameMail
  <2>2. PICK s : Goto(r, s) /\ s = With(r, pc, i)  BY <1>13
  <2>3. run'[r] = s  BY <2>2, Goes
  <2>4. /\ run'[r].pc = pc /\ run'[r].folder = f /\ run'[r].top = top
        /\ run'[r].got = got /\ run'[r].id = i
    BY <2>2, <2>3, <1>2, <1>3 DEF With
  <2>5. top \in 1..uidNext'[f]  BY <1>3, <1>8
  <2>6. r \in Runs /\ r \notin LiveRuns  BY <1>1, Typing
  <2>7. CASE pc = "move"
    <3>1. row'[i] # NoRow /\ row'[i].mail = First(got)[2]  BY <1>1, <1>4, <2>1
    <3>2. PICK shift : shift = run'[r].shift  OBVIOUS
    <3>3. RunKnows(r)'
      BY <1>2, <1>9, <2>1, <2>4, <2>5, <2>6, <2>7, <3>1, <3>2, KnowsMove
    <3>4. \A m \in Mails : ~Storing(r, m)'  BY <1>1, <2>4, <2>7 DEF Storing, At
    <3>5. QED  BY <1>8, <2>2, <2>6, <3>3, <3>4, MovedAway
  <2>8. CASE pc = "dedupe"
    <3>1. StoredMail(g[2])  BY <2>1 DEF StoredMail
    <3>2. g[2] \in Settled' => StoredMail(g[2])'  BY <3>1, <1>8 DEF Env, KeepsStored
    <3>3. RunKnows(r)'
      BY <1>1, <1>2, <1>4, <1>9, <2>4, <2>5, <2>8, <3>2, KnowsDedupe
    <3>4. QED  BY <3>3, <1>8, <2>2, <2>6, <2>8, WithPc, MovedOn
  <2>9. QED  BY <2>7, <2>8
<1>14. CASE \E i \in SameMail(g[2]) :
              Goto(r, With(r, IF TakesOver(f, i) THEN "move" ELSE "dedupe", i))
  <2>1. PICK i \in SameMail(g[2]) :
          Goto(r, With(r, IF TakesOver(f, i) THEN "move" ELSE "dedupe", i))
    BY <1>14
  <2>2. CASE TakesOver(f, i)
    <3>1. Goto(r, With(r, "move", i))  BY <2>1, <2>2
    <3>2. QED  BY <3>1, <1>13
  <2>3. CASE ~TakesOver(f, i)
    <3>1. Goto(r, With(r, "dedupe", i))  BY <2>1, <2>3
    <3>2. QED  BY <3>1, <1>13
  <2>4. QED  BY <2>2, <2>3
<1>15. CASE /\ SameMail(g[2]) = {} /\ crossed' = crossed \cup Crossing(r, {g[2]})
            /\ Goto(r, With(r, "create", 0))
  <2>1. PICK s : Goto(r, s) /\ s = With(r, "create", 0)  BY <1>15
  <2>2. run'[r] = s  BY <2>1, Goes
  <2>3. /\ run'[r].pc = "create" /\ run'[r].folder = f /\ run'[r].top = top
        /\ run'[r].got = got
    BY <2>1, <2>2, <1>2, <1>3 DEF With
  <2>4. RunKnows(r)'  BY <1>2, <1>3, <1>8, <1>9, <2>3, KnowsCreate
  <2>5. \A m \in Mails : Storing(r, m)' => m \in {g[2]}
    BY <1>1, <1>4, <2>3 DEF Storing, At
  <2>6. \A q \in Runs \ {r} : run'[q] = run[q]  BY <2>1, Goes
  <2>7. UNCHANGED <<atServer, row>>  BY <1>1
  <2>8. PICK ms : ms = {g[2]}  OBVIOUS
  <2>9. /\ \A m \in ms : SameMail(m) = {}
        /\ crossed' = crossed \cup Crossing(r, ms)
        /\ \A m \in Mails : Storing(r, m)' => m \in ms
    BY <1>15, <2>5, <2>8
  <2>10. Single'  BY <2>6, <2>7, <2>9, LookedSingle
  <2>11. QED  BY <1>8, <2>1, <2>4, <2>10, Moved
<1>16. QED  BY <1>5, <1>11, <1>12, <1>14, <1>15

LEMMA LookBatchStep ==
  ASSUME Known, NEW r \in Runs, LookBatch(r)
  PROVE  Known' /\ KeepsStored
PROOF
<1>1. run[r].pc = "look" /\ r \in LiveRuns  BY DEF LookBatch, At
<1>a. PICK ms : ms = {g[2] : g \in {h \in run[r].got : ~(SameMail(h[2]) # {})}}  OBVIOUS
<1>b. /\ UNCHANGED <<atServer, unthreaded, skipped, mark, row, purged, failures>>
      /\ crossed' = crossed \cup Crossing(r, ms)
  <2>1. run[r].got \ {g \in run[r].got : SameMail(g[2]) # {}}
          = {h \in run[r].got : ~(SameMail(h[2]) # {})}
    OBVIOUS
  <2>2. crossed' = crossed \cup
          Crossing(r, {g[2] : g \in run[r].got \ {h \in run[r].got : SameMail(h[2]) # {}}})
    BY Zenon DEF LookBatch
  <2>3. QED  BY <1>a, <2>1, <2>2 DEF LookBatch
<1>c. ms \subseteq Mails
  <2>1. PICK got : got = run[r].got  OBVIOUS
  <2>2. \A g \in got : g[2] \in Mails  BY <1>1, <2>1, BatchFacts DEF Gotten, Sighting
  <2>3. QED  BY <1>a, <2>1, <2>2
<1>2. Env /\ Data' /\ Calm
  <2>1. Crossing(r, ms) \subseteq Mails  BY <1>c DEF Crossing
  <2>2. /\ skipped \subseteq Mails /\ crossed \subseteq Mails
        /\ unthreaded \in BOOLEAN /\ failures \in 0..MaxFailures
    BY DataHolds DEF Data
  <2>3. /\ crossed \subseteq crossed' /\ crossed' \subseteq Mails
        /\ skipped' = skipped /\ unthreaded' = unthreaded /\ failures' = failures
    BY <1>b, <2>1, <2>2
  <2>4. QED  BY <1>b, <2>2, <2>3, Reads
<1>3. PICK got : got = run[r].got  OBVIOUS
<1>4. PICK f \in Folders, top \in Nat :
        /\ f = run[r].folder /\ top = run[r].top /\ top <= uidNext[f]
        /\ top \in 1..uidNext'[f]
        /\ Gotten(f, top, got)
  BY <1>1, <1>2, <1>3, BatchFacts
<1>5. PICK known : known = {g \in got : SameMail(g[2]) # {}}  OBVIOUS
<1>6. PICK which \in [known -> RowIds] :
        /\ \A g \in known : which[g] \in SameMail(g[2])
        /\ Goto(r, [pc |-> "move", folder |-> f, top |-> top,
             shift |-> {<<which[g], g[1]>> : g \in
                          {h \in known : TakesOver(f, which[h])}},
             got |-> got \ known])
  BY <1>3, <1>4, <1>5 DEF LookBatch
<1>7. PICK shift : shift = {<<which[g], g[1]>> : g \in
                              {h \in known : TakesOver(f, which[h])}}
  OBVIOUS
<1>8. PICK s : Goto(r, s) /\ s = [pc |-> "move", folder |-> f, top |-> top,
                                  shift |-> shift, got |-> got \ known]
  BY <1>6, <1>7
<1>9. run'[r] = s  BY <1>8, Goes
<1>10. \A g \in known : /\ which[g] \in Stored /\ which[g] \in RowIds
                        /\ row[which[g]] # NoRow /\ row[which[g]].mail = g[2]
  BY <1>6, StoredRow DEF SameMail
<1>11. Shifted(f, shift)
  <2>1. ASSUME NEW s1 \in shift
        PROVE  \E g \in known : s1 = <<which[g], g[1]>> /\ s1[1] = which[g] /\ s1[2] = g[1]
    BY <1>7
  <2>2. ASSUME NEW s1 \in shift
        PROVE  /\ s1[1] \in RowIds /\ row[s1[1]] # NoRow
               /\ Sighting(f, s1[2], row[s1[1]].mail)
    <3>1. PICK g \in known : s1[1] = which[g] /\ s1[2] = g[1]  BY <2>1
    <3>2. Sighting(f, g[1], g[2])  BY <1>4, <1>5 DEF Gotten
    <3>3. QED  BY <3>1, <3>2, <1>10
  <2>3. ASSUME NEW s1 \in shift, NEW s2 \in shift, s1[1] = s2[1] \/ s1[2] = s2[2]
        PROVE  s1 = s2
    <3>1. PICK g \in known : s1 = <<which[g], g[1]>> /\ s1[1] = which[g] /\ s1[2] = g[1]
      BY <2>1
    <3>2. PICK h \in known : s2 = <<which[h], h[1]>> /\ s2[1] = which[h] /\ s2[2] = h[1]
      BY <2>1
    <3>3. g[1] = h[1] \/ g[2] = h[2]  BY <2>3, <3>1, <3>2, <1>10
    <3>4. g = h  BY <3>3, <1>4, <1>5 DEF Gotten
    <3>5. QED  BY <3>1, <3>2, <3>4
  <2>4. QED  BY <2>2, <2>3 DEF Shifted
<1>12. Shifted(f, shift)'  BY <1>2, <1>11, ShiftedKept
<1>13. Gotten(f, top, got)'  BY <1>2, <1>4, GottenKept
<1>14. Gotten(f, top, got \ known)'
  <2>1. ASSUME NEW g \in got \cap known, g[2] \in Settled' PROVE StoredMail(g[2])'
    <3>1. StoredMail(g[2])  BY <1>10 DEF StoredMail
    <3>2. QED  BY <2>1, <3>1, <1>2 DEF Env, KeepsStored
  <2>2. QED  BY <2>1, <1>13, LessGotten
<1>15. r \notin QueueRuns  BY <1>1, Typing
<1>16. RunKnows(r)'
  <2>1. /\ run'[r].pc = "move" /\ run'[r].folder = f /\ run'[r].top = top
        /\ run'[r].shift = shift /\ run'[r].got = got \ known
    BY <1>8, <1>9
  <2>2. PICK rest : rest = got \ known  OBVIOUS
  <2>3. run'[r].got = rest /\ Gotten(f, top, rest)'  BY <2>1, <2>2, <1>14
  <2>4. QED  BY <1>4, <1>12, <1>15, <2>1, <2>3, KnowsMove
<1>17. Single'
  <2>1. \A m \in ms : SameMail(m) = {}  BY <1>a
  <2>2. ASSUME NEW m \in Mails, Storing(r, m)' PROVE m \in ms
    <3>1. PICK g \in got \ known : g[2] = m
      <4>1. run'[r].got = got \ known  BY <1>8, <1>9
      <4>2. \E g \in run'[r].got : g[2] = m  BY <2>2, <1>15 DEF Storing
      <4>3. QED  BY <4>1, <4>2
    <3>2. QED  BY <3>1, <1>3, <1>5, <1>a
  <2>3. \A q \in Runs \ {r} : run'[q] = run[q]  BY <1>8, Goes
  <2>4. UNCHANGED <<atServer, row>>  BY <1>b
  <2>5. QED  BY <2>1, <2>2, <2>3, <2>4, <1>b, LookedSingle
<1>18. QED  BY <1>2, <1>8, <1>16, <1>17, Moved

LEMMA MoveBatchStep ==
  ASSUME Known, NEW r \in Runs, MoveBatch(r)
  PROVE  Known' /\ KeepsStored
PROOF
<1>1. /\ RunKnows(r) /\ run[r].pc = "move" /\ r \in LiveRuns
      /\ UNCHANGED <<atServer, unthreaded, skipped, crossed, mark, purged, failures>>
  BY DEF Known, FolderInv, MoveBatch, At
<1>2. PICK got : got = run[r].got  OBVIOUS
<1>3. PICK f \in Folders, top \in Nat :
        /\ f = run[r].folder /\ top = run[r].top /\ top <= uidNext[f]
        /\ Env => top \in 1..uidNext'[f]
        /\ Gotten(f, top, got)
  BY <1>1, <1>2, BatchFacts
<1>4. PICK shift : shift = run[r].shift /\ Shifted(f, shift)
  BY <1>1, <1>3 DEF RunKnows
<1> DEFINE F == run[r].folder
           S == run[r].shift
           moved == {s[1] : s \in S}
           clash == \E s \in S : \E j \in RowIds \ moved : Holds(j, F, s[2])
           at(i) == CHOOSE s \in S : s[1] = i
           st == StateIn(F)
<1>5. F = f /\ S = shift  BY <1>3, <1>4
<1>6. IF clash THEN Goto(r, Idle) /\ UNCHANGED row
      ELSE /\ row' = [i \in RowIds |->
                IF i \in moved \cap Stored
                THEN [row[i] EXCEPT !.folder = F, !.uid = at(i)[2], !.state = st]
                ELSE row[i]]
           /\ Goto(r, [pc |-> "create", folder |-> F, got |-> run[r].got,
                       top |-> run[r].top])
  BY Zenon DEF MoveBatch
<1>7. CASE clash
  <2>1. Goto(r, Idle) /\ row' = row  BY <1>6, <1>7, Zenon
  <2>2. Reading' = Reading  BY <1>1, <2>1 DEF Reading
  <2>3. Env /\ Data' /\ Calm  BY <2>2, ReadingReads
  <2>4. RunKnows(r)'  BY <2>1, Goes, KnowsIdle
  <2>5. QED  BY <2>1, <2>3, <2>4, MovedOn DEF Idle
<1>8. CASE ~clash
  <2>1. /\ row' = [i \in RowIds |->
             IF i \in moved \cap Stored
             THEN [row[i] EXCEPT !.folder = F, !.uid = at(i)[2], !.state = st]
             ELSE row[i]]
        /\ Goto(r, [pc |-> "create", folder |-> F, got |-> run[r].got,
                    top |-> run[r].top])
    BY <1>6, <1>8, Zenon
  <2>2. st \in {"present", "trashed"} /\ (st = "trashed" => f = "trash")
    BY <1>5 DEF StateIn
  <2>3. \A i \in moved : at(i) \in shift /\ at(i)[1] = i  BY <1>5
  <2>n. \A s \in shift : \A j \in RowIds \ moved : ~Holds(j, f, s[2])
    BY <1>5, <1>8
  <2> HIDE DEF at, st, moved, clash, F, S
  <2>4. DOMAIN row' = RowIds  BY <2>1
  <2>5. \A i \in RowIds : i \notin moved \cap Stored => row'[i] = row[i]  BY <2>1
  <2>6. ASSUME NEW i \in moved \cap Stored
        PROVE  /\ i \in RowIds /\ row[i] # NoRow /\ row'[i] # NoRow
               /\ row'[i] \in Row /\ row'[i].mail = row[i].mail
               /\ row'[i].folder = f /\ row'[i].uid = at(i)[2] /\ row'[i].state = st
               /\ Sighting(f, at(i)[2], row[i].mail)
    <3>1. i \in RowIds /\ row[i] # NoRow /\ row[i] \in Row  BY StoredRow, RowFacts
    <3>2. at(i) \in shift /\ at(i)[1] = i  BY <2>3
    <3>3. Sighting(f, at(i)[2], row[i].mail)  BY <3>2, <1>4 DEF Shifted
    <3>4. PICK u \in Uids : u = at(i)[2]  BY <3>3, SightedUid
    <3>5. PICK o : o = row[i]  OBVIOUS
    <3>6. PICK x : x = [o EXCEPT !.folder = f, !.uid = u, !.state = st]  OBVIOUS
    <3>7. row'[i] = [row[i] EXCEPT !.folder = F, !.uid = at(i)[2], !.state = st]
      BY <2>1, <3>1, Zenon
    <3>8. row'[i] = x  BY <1>5, <3>4, <3>5, <3>6, <3>7, Zenon
    <3>10. o = [state |-> o.state, mail |-> o.mail, folder |-> o.folder, uid |-> o.uid]
           /\ o.mail \in Mails
      BY <3>1, <3>5 DEF Row
    <3>11. x = [state |-> st, mail |-> o.mail, folder |-> f, uid |-> u]
      <4>1. PICK y : y = [o EXCEPT !.folder = f]  OBVIOUS
      <4>2. y = [state |-> o.state, mail |-> o.mail, folder |-> f, uid |-> o.uid]
        BY <3>10, <4>1
      <4>3. PICK z : z = [y EXCEPT !.uid = u]  OBVIOUS
      <4>4. z = [state |-> o.state, mail |-> o.mail, folder |-> f, uid |-> u]
        BY <4>2, <4>3
      <4>5. x = [z EXCEPT !.state = st]  BY <3>6, <4>1, <4>3
      <4>6. QED  BY <4>4, <4>5
    <3>12. x \in Row /\ x # NoRow  BY <2>2, <3>10, <3>11 DEF Row, NoRow
    <3>13. x.mail = o.mail /\ x.folder = f /\ x.uid = u /\ x.state = st  BY <3>11
    <3>14. QED  BY <3>1, <3>3, <3>4, <3>5, <3>8, <3>12, <3>13
  <2>7. Stored' = Stored
    <3>1. ASSUME NEW i \in RowIds PROVE i \in Stored' <=> i \in Stored
      <4>1. CASE i \in moved \cap Stored  BY <4>1, <2>2, <2>6 DEF Stored
      <4>2. CASE i \notin moved \cap Stored  BY <4>2, <2>5 DEF Stored
      <4>3. QED  BY <4>1, <4>2
    <3>2. Stored \subseteq RowIds /\ Stored' \subseteq RowIds  BY DEF Stored
    <3>3. QED  BY <3>1, <3>2
  <2>8. \A i \in RowIds : row'[i] = NoRow \/ row'[i] \in Row
    BY <2>5, <2>6, DataHolds DEF Data
  <2>9. \A i \in RowIds : row[i] # NoRow => row'[i] # NoRow /\ row'[i].mail = row[i].mail
    BY <2>5, <2>6
  <2>10. KeepsStored
    <3>1. ASSUME NEW m, StoredMail(m) PROVE StoredMail(m)'
      <4>1. PICK i \in Stored : row[i].mail = m  BY <3>1 DEF StoredMail
      <4>2. row'[i].mail = m  BY <4>1, <2>9, StoredRow
      <4>3. QED  BY <4>2, <2>7 DEF StoredMail
    <3>2. QED  BY <3>1 DEF KeepsStored
  <2>11. RowsSighted'
    <3>1. server' = server /\ uidNext' = uidNext /\ wandered' = wandered
      BY <1>1 DEF atServer
    <3>2. ASSUME NEW i \in RowIds, row'[i] # NoRow
          PROVE Sighting(row[i].folder, row[i].uid, row[i].mail)'
      <4>1. CASE i \in moved \cap Stored  BY <4>1, <2>6, <3>1 DEF Sighting
      <4>2. CASE i \notin moved \cap Stored
        <5>1. row'[i] = row[i]  BY <4>2, <2>5
        <5>2. Sighting(row[i].folder, row[i].uid, row[i].mail)  BY <5>1, <3>2, RowFacts
        <5>3. QED  BY <5>1, <5>2, <3>1 DEF Sighting
      <4>3. QED  BY <4>1, <4>2
    <3>3. QED  BY <3>2 DEF RowsSighted
  <2>12. UniquePlaces'
    <3>1. ASSUME NEW i \in Stored, NEW j \in Stored, i \in moved, j \notin moved
          PROVE  ~(row'[i].folder = row'[j].folder /\ row'[i].uid = row'[j].uid)
      <4>1. SUFFICES ASSUME row'[i].folder = row'[j].folder, row'[i].uid = row'[j].uid
                     PROVE FALSE
        OBVIOUS
      <4>2. row'[j] = row[j] /\ j \in RowIds \ moved  BY <3>1, <2>5, StoredRow
      <4>3. row[j].folder = f /\ row[j].uid = at(i)[2]  BY <4>1, <4>2, <3>1, <2>6
      <4>4. Holds(j, f, at(i)[2])  BY <4>3, <3>1 DEF Holds
      <4>5. QED  BY <4>2, <4>4, <2>3, <2>n, <3>1
    <3>2. ASSUME NEW i \in Stored, NEW j \in Stored, row'[i].folder = row'[j].folder,
                 row'[i].uid = row'[j].uid
          PROVE  i = j
      <4>1. CASE i \in moved /\ j \in moved
        <5>1. at(i)[2] = at(j)[2]  BY <4>1, <3>2, <2>6
        <5>2. at(i) = at(j)  BY <4>1, <5>1, <2>3, <1>4 DEF Shifted
        <5>3. QED  BY <4>1, <5>2, <2>3
      <4>2. CASE i \notin moved /\ j \notin moved
        <5>1. row'[i] = row[i] /\ row'[j] = row[j]  BY <4>2, <2>5, StoredRow
        <5>2. QED  BY <5>1, <3>2, DataHolds DEF Data, UniquePlaces
      <4>3. CASE i \in moved /\ j \notin moved  BY <4>3, <3>1, <3>2
      <4>4. CASE i \notin moved /\ j \in moved  BY <4>4, <3>1, <3>2
      <4>5. QED  BY <4>1, <4>2, <4>3, <4>4
    <3>3. QED  BY <3>2, <2>7 DEF UniquePlaces
  <2>t. TrashedThere'
    <3>1. ASSUME NEW i \in Stored, row'[i].state = "trashed" PROVE row'[i].folder = "trash"
      <4>1. CASE i \in moved  BY <4>1, <3>1, <2>2, <2>6
      <4>2. CASE i \notin moved
        <5>1. row'[i] = row[i]  BY <4>2, <2>5, StoredRow
        <5>2. QED  BY <5>1, <3>1, DataHolds DEF Data, TrashedThere
      <4>3. QED  BY <4>1, <4>2
    <3>2. QED  BY <3>1, <2>7 DEF TrashedThere
  <2>13. purged' = purged /\ purged \subseteq Mails  BY <1>1, DataHolds DEF Data
  <2>14. UNCHANGED <<atServer, unthreaded, skipped, crossed, mark, failures>>  BY <1>1
  <2>15. Env /\ Data'
    BY <2>4, <2>8, <2>9, <2>10, <2>11, <2>12, <2>t, <2>13, <2>14, RowsChanged
  <2>16. PICK s : /\ Goto(r, s)
                  /\ s = [pc |-> "create", folder |-> f, got |-> got, top |-> top]
    BY <2>1, <1>2, <1>3 DEF F
  <2>17. run'[r] = s  BY <2>16, Goes
  <2>18. Gotten(f, top, got)'  BY <1>3, <2>15, GottenKept
  <2>19. r \notin QueueRuns  BY <1>1, Typing
  <2>20. RunKnows(r)'  BY <1>3, <2>15, <2>16, <2>17, <2>18, <2>19, KnowsCreate
  <2>21. Single'
    <3>1. Calm
      <4>1. \A i \in Stored' : i \in Stored /\ row'[i].mail = row[i].mail
        BY <2>7, <2>9, StoredRow
      <4>2. UNCHANGED atServer /\ crossed' = crossed  BY <1>1
      <4>3. QED  BY <4>1, <4>2 DEF Calm
    <3>2. ASSUME NEW m \in Mails, Storing(r, m)' PROVE Storing(r, m)
      <4>1. run'[r].got = run[r].got  BY <2>16, <2>17, <1>2
      <4>2. \E g \in run'[r].got : g[2] = m  BY <3>2, <2>19 DEF Storing
      <4>3. QED  BY <4>1, <4>2, <1>1, <2>19 DEF Storing
    <3>3. \A q \in Runs \ {r} : run'[q] = run[q]  BY <2>16, Goes
    <3>4. \A q \in Runs, m \in Mails : Storing(q, m)' => Storing(q, m)
      BY <3>2, <3>3, SameRun
    <3>5. QED  BY <3>1, <3>4, SingleKept
  <2>22. QED  BY <2>15, <2>16, <2>20, <2>21, Moved
<1>9. QED  BY <1>7, <1>8

LEMMA CreateBatchStep ==
  ASSUME Known, NEW r \in Runs, CreateBatch(r)
  PROVE  Known' /\ KeepsStored
PROOF
<1>1. /\ run[r].pc = "create" /\ r \in LiveRuns
      /\ UNCHANGED <<atServer, unthreaded, skipped, crossed, mark, purged, failures>>
  BY DEF CreateBatch, At
<1>2. PICK got : got = run[r].got  OBVIOUS
<1>3. PICK f \in Folders, top \in Nat :
        /\ f = run[r].folder /\ top = run[r].top /\ top <= uidNext[f]
        /\ Env => top \in 1..uidNext'[f]
        /\ Gotten(f, top, got)
  BY <1>1, <1>2, BatchFacts
<1> DEFINE F == run[r].folder
           N == {g \in run[r].got : ~Occupied(F, g[1])}
<1>a. \E id \in [N -> Free] :
        /\ \A g, h \in N : g[1] < h[1] => id[g] < id[h]
        /\ row' = [i \in RowIds |->
             IF \E g \in N : id[g] = i
             THEN LET g == CHOOSE g \in N : id[g] = i IN Made(g[2], F, g[1])
             ELSE row[i]]
  BY Zenon DEF CreateBatch
<1>b. F = f  BY <1>3
<1>4. PICK new : new = N /\ new = {g \in got : ~Occupied(f, g[1])}  BY <1>2, <1>b
<1>5. PICK id \in [new -> Free] :
        /\ \A g, h \in new : g[1] < h[1] => id[g] < id[h]
        /\ DOMAIN row' = RowIds
        /\ \A i \in RowIds : (\A g \in new : id[g] # i) => row'[i] = row[i]
        /\ \A i \in RowIds, g \in new :
             id[g] = i => \E h \in new : id[h] = i /\ row'[i] = Made(h[2], f, h[1])
  <2>1. PICK id \in [N -> Free] :
          /\ \A g, h \in N : g[1] < h[1] => id[g] < id[h]
          /\ row' = [i \in RowIds |->
               IF \E g \in N : id[g] = i
               THEN LET g == CHOOSE g \in N : id[g] = i IN Made(g[2], F, g[1])
               ELSE row[i]]
    BY <1>a
  <2> HIDE DEF N, F
  <2>2. DOMAIN row' = RowIds  BY <2>1
  <2>3. \A i \in RowIds : (\A g \in N : id[g] # i) => row'[i] = row[i]  BY <2>1
  <2>4. ASSUME NEW i \in RowIds, NEW g \in N, id[g] = i
        PROVE  \E h \in N : id[h] = i /\ row'[i] = Made(h[2], F, h[1])
    <3>1. PICK h : h = CHOOSE x \in N : id[x] = i  OBVIOUS
    <3>2. h \in N /\ id[h] = i  BY <2>4, <3>1
    <3>3. row'[i] = LET x == CHOOSE x \in N : id[x] = i IN Made(x[2], F, x[1])
      BY <2>1, <2>4
    <3>4. row'[i] = Made(h[2], F, h[1])  BY <3>1, <3>3
    <3>5. QED  BY <3>2, <3>4
  <2>5. id \in [new -> Free] /\ \A g, h \in new : g[1] < h[1] => id[g] < id[h]
    <3>1. new = N  BY <1>4
    <3>2. id \in [N -> Free] /\ \A g, h \in N : g[1] < h[1] => id[g] < id[h]  BY <2>1
    <3>3. QED  BY <3>1, <3>2, Zenon
  <2>6. \A i \in RowIds : (\A g \in new : id[g] # i) => row'[i] = row[i]
    BY <2>3, <1>4
  <2>7. \A i \in RowIds, g \in new :
          id[g] = i => \E h \in new : id[h] = i /\ row'[i] = Made(h[2], f, h[1])
    BY <2>4, <1>4, <1>b
  <2>8. QED  BY <2>2, <2>5, <2>6, <2>7, Zenon
<1> HIDE DEF N, F
<1>6. PICK s : Goto(r, s) /\ s = GoOn(r, {})  BY DEF CreateBatch
<1>7. \A g \in new : id[g] \in RowIds /\ row[id[g]] = NoRow /\ id[g] \in Nat
  BY DEF Free, RowIds
<1>8. \A g \in got : Sighting(f, g[1], g[2]) /\ g[2] \in Mails
  BY <1>3 DEF Gotten, Sighting
<1>9. \A g \in got : g[1] \in Uids /\ g[1] \in Nat
  BY <1>8, SightedUid DEF Uids
<1>10. ASSUME NEW g \in new, NEW h \in new, id[g] = id[h] PROVE g = h
  <2>1. g[1] \in Nat /\ h[1] \in Nat  BY <1>4, <1>9
  <2>2. ~(g[1] < h[1]) /\ ~(h[1] < g[1])  BY <1>5, <1>7, <1>10
  <2>3. g[1] = h[1]  BY <2>1, <2>2
  <2>4. QED  BY <2>3, <1>3, <1>4 DEF Gotten
<1>11. ASSUME NEW g \in new PROVE row'[id[g]] = Made(g[2], f, g[1])
  <2>1. PICK h \in new : id[h] = id[g] /\ row'[id[g]] = Made(h[2], f, h[1])
    BY <1>5, <1>7
  <2>2. QED  BY <2>1, <1>10
<1>12. DOMAIN row' = RowIds  BY <1>5
<1>13. \A i \in RowIds : (\A g \in new : id[g] # i) => row'[i] = row[i]  BY <1>5
<1>14. ASSUME NEW g \in new
       PROVE  /\ row'[id[g]].state = "present" /\ row'[id[g]].mail = g[2]
              /\ row'[id[g]].folder = f /\ row'[id[g]].uid = g[1]
              /\ row'[id[g]] \in Row /\ row'[id[g]] # NoRow
  <2>1. row'[id[g]] = Made(g[2], f, g[1])  BY <1>11
  <2>2. g[2] \in Mails /\ g[1] \in Uids  BY <1>4, <1>8, <1>9
  <2>3. QED  BY <2>1, <2>2 DEF Made, Row, NoRow
<1>15. \A i \in RowIds : row[i] # NoRow => row'[i] = row[i]  BY <1>7, <1>13
<1>16. \A i \in RowIds : row'[i] = NoRow \/ row'[i] \in Row
  <2>1. ASSUME NEW i \in RowIds PROVE row'[i] = NoRow \/ row'[i] \in Row
    <3>1. CASE \E g \in new : id[g] = i  BY <3>1, <1>14
    <3>2. CASE ~\E g \in new : id[g] = i  BY <3>2, <1>13, DataHolds DEF Data
    <3>3. QED  BY <3>1, <3>2
  <2>2. QED  BY <2>1
<1>17. \A i \in Stored : i \in Stored' /\ row'[i] = row[i]
  BY <1>15, StoredRow DEF Stored
<1>18. \A g \in new : id[g] \in Stored'  BY <1>7, <1>14 DEF Stored
<1>19. \A i \in Stored' : i \in Stored \/ \E g \in new : i = id[g]
  <2>1. ASSUME NEW i \in Stored', ~\E g \in new : i = id[g] PROVE i \in Stored
    <3>1. i \in RowIds /\ row'[i] = row[i]  BY <2>1, <1>13 DEF Stored
    <3>2. QED  BY <3>1 DEF Stored
  <2>2. QED  BY <2>1
<1>20. KeepsStored
  <2>1. ASSUME NEW m, StoredMail(m) PROVE StoredMail(m)'
    <3>1. PICK i \in Stored : row[i].mail = m  BY <2>1 DEF StoredMail
    <3>2. QED  BY <3>1, <1>17 DEF StoredMail
  <2>2. QED  BY <2>1 DEF KeepsStored
<1>21. RowsSighted'
  <2>1. server' = server /\ uidNext' = uidNext /\ wandered' = wandered
    BY <1>1 DEF atServer
  <2>2. ASSUME NEW i \in RowIds, row'[i] # NoRow
        PROVE Sighting(row[i].folder, row[i].uid, row[i].mail)'
    <3>1. CASE \E g \in new : id[g] = i
      <4>1. PICK g \in new : id[g] = i  BY <3>1
      <4>2. Sighting(f, g[1], g[2])  BY <1>4, <1>8
      <4>3. QED  BY <4>1, <4>2, <1>14, <2>1 DEF Sighting
    <3>2. CASE ~\E g \in new : id[g] = i
      <4>1. row'[i] = row[i]  BY <3>2, <1>13
      <4>2. Sighting(row[i].folder, row[i].uid, row[i].mail)  BY <4>1, <2>2, RowFacts
      <4>3. QED  BY <4>1, <4>2, <2>1 DEF Sighting
    <3>3. QED  BY <3>1, <3>2
  <2>3. QED  BY <2>2 DEF RowsSighted
<1>22. UniquePlaces'
  <2>1. ASSUME NEW i \in Stored, NEW g \in new
        PROVE  ~(row[i].folder = f /\ row[i].uid = g[1])
    <3>1. ~Occupied(f, g[1])  BY <1>4
    <3>2. i \in RowIds  BY StoredRow
    <3>3. QED  BY <3>1, <3>2 DEF Occupied, Holds
  <2>2. ASSUME NEW i \in Stored', NEW j \in Stored', row'[i].folder = row'[j].folder,
               row'[i].uid = row'[j].uid
        PROVE  i = j
    <3>1. CASE i \in Stored /\ j \in Stored
      BY <3>1, <2>2, <1>17, DataHolds DEF Data, UniquePlaces
    <3>2. CASE i \in Stored /\ \E g \in new : j = id[g]
      BY <3>2, <2>1, <2>2, <1>14, <1>17
    <3>3. CASE j \in Stored /\ \E g \in new : i = id[g]
      BY <3>3, <2>1, <2>2, <1>14, <1>17
    <3>4. CASE (\E g \in new : i = id[g]) /\ \E g \in new : j = id[g]
      <4>1. PICK g \in new, h \in new : i = id[g] /\ j = id[h]  BY <3>4
      <4>2. g[1] = h[1]  BY <4>1, <2>2, <1>14
      <4>3. g = h  BY <4>2, <1>3, <1>4 DEF Gotten
      <4>4. QED  BY <4>1, <4>3
    <3>5. QED  BY <1>19, <3>1, <3>2, <3>3, <3>4
  <2>3. QED  BY <2>2 DEF UniquePlaces
<1>t. TrashedThere'
  <2>1. ASSUME NEW i \in Stored', row'[i].state = "trashed" PROVE row'[i].folder = "trash"
    <3>1. i \in Stored  BY <2>1, <1>14, <1>19
    <3>2. row'[i] = row[i]  BY <3>1, <1>17
    <3>3. QED  BY <3>1, <3>2, <2>1, DataHolds DEF Data, TrashedThere
  <2>2. QED  BY <2>1 DEF TrashedThere
<1>23. purged' = purged /\ purged \subseteq Mails  BY <1>1, DataHolds DEF Data
<1>24. UNCHANGED <<atServer, unthreaded, skipped, crossed, mark, failures>>  BY <1>1
<1>25. \A i \in RowIds : row[i] # NoRow => row'[i] # NoRow /\ row'[i].mail = row[i].mail
  BY <1>15
<1>26. Env /\ Data'
  BY <1>12, <1>16, <1>20, <1>21, <1>22, <1>23, <1>24, <1>25, <1>t, RowsChanged
<1>27. ASSUME NEW g \in got, g[2] \in Settled' PROVE StoredMail(g[2])'
  <2>1. CASE g \in new  BY <2>1, <1>14, <1>18 DEF StoredMail
  <2>2. CASE g \notin new
    <3>1. Occupied(f, g[1])  BY <2>2, <1>4
    <3>2. g[2] \in Settled  BY <1>26, <1>27 DEF Env
    <3>3. StoredMail(g[2])  BY <3>1, <3>2, <1>8, OccupiedStored
    <3>4. QED  BY <3>3, <1>26, <1>27 DEF Env, KeepsStored
  <2>3. QED  BY <2>1, <2>2
<1>28. Gotten(f, top, got)'  BY <1>3, <1>26, GottenKept
<1>29. Gotten(f, top, {})'
  <2>1. Gotten(f, top, got \ got)'  BY <1>27, <1>28, LessGotten
  <2>2. got \ got = {}  OBVIOUS
  <2>3. QED  BY <2>1, <2>2
<1>30. run'[r] = s  BY <1>6, Goes
<1>31. RunKnows(r)'  BY <1>3, <1>6, <1>26, <1>29, <1>30, KnowsGoOn
<1>32. Single'
  <2>1. \A h \in new : Sighting(f, h[1], h[2]) /\ ~Occupied(f, h[1]) /\ Storing(r, h[2])
    <3>1. r \notin QueueRuns  BY <1>1, Typing
    <3>2. ASSUME NEW h \in new PROVE Storing(r, h[2])
      BY <3>1, <1>1, <1>2, <1>4 DEF Storing
    <3>3. QED  BY <3>2, <1>4, <1>8
  <2>2. \A h, k \in new : h[2] = k[2] => h = k  BY <1>3, <1>4 DEF Gotten
  <2>3. \A j \in Stored' : \/ j \in Stored /\ row'[j] = row[j]
                           \/ \E h \in new : /\ row'[j].mail = h[2]
                                            /\ row'[j].folder = f /\ row'[j].uid = h[1]
    BY <1>14, <1>17, <1>19
  <2>4. \A m \in Mails : ~Storing(r, m)'
    <3>1. run'[r].pc \in {"close", "look"}  BY <1>6, <1>30, GoOnPc
    <3>2. QED  BY <3>1, NotStoring
  <2>5. \A q \in Runs \ {r} : run'[q] = run[q]  BY <1>6, Goes
  <2>6. UniquePlaces'  BY <1>26 DEF Data
  <2>7. UNCHANGED <<atServer, crossed>>  BY <1>1
  <2>8. QED  BY <2>1, <2>2, <2>3, <2>4, <2>5, <2>6, <2>7, CreatedSingle
<1>33. QED  BY <1>6, <1>26, <1>31, <1>32, Moved

(***************************************************************************)
(* The other steps                                                          *)
(***************************************************************************)
\* A watermark written: what lies below it is covered.
LEMMA MarkWritten ==
  ASSUME Known, UNCHANGED <<atServer, unthreaded, skipped, crossed, row, purged, failures>>,
         NEW f \in Folders, NEW n \in 0..uidNext[f], Covered(f, n, {}),
         mark' = [mark EXCEPT ![f] = n]
  PROVE  Env /\ Data' /\ Calm
PROOF
<1>1. /\ server' = server /\ uidNext' = uidNext /\ wandered' = wandered
      /\ skipped' = skipped /\ unthreaded' = unthreaded /\ row' = row
      /\ purged' = purged /\ failures' = failures /\ crossed' = crossed
  BY DEF atServer
<1>2. Settled' = Settled  BY <1>1 DEF Settled
<1>3. Stored' = Stored  BY <1>1 DEF Stored
<1>4. \A m : StoredMail(m)' <=> StoredMail(m)  BY <1>1, <1>3 DEF StoredMail
<1>5. Env  BY <1>1, <1>2, <1>4, Typing DEF Env, KeepsStored
<1>6. Data  BY DataHolds
<1>7. Server'  BY <1>1, <1>6 DEF Data, Server
<1>8. RowsSighted'  BY <1>1, <1>6 DEF Data, RowsSighted, Sighting
<1>9. UniquePlaces' /\ TrashedThere'
  BY <1>1, <1>3, <1>6 DEF Data, UniquePlaces, TrashedThere
<1>10. mark \in [Folders -> 0..(MaxUid + 1)]  BY <1>6 DEF Data
<1>11. uidNext[f] \in 1..(MaxUid + 1) /\ uidNext[f] \in Nat /\ MaxUid \in Nat  BY Typing
<1>12. n \in 0..(MaxUid + 1) /\ n <= uidNext[f]  BY <1>11
<1>13. /\ mark' \in [Folders -> 0..(MaxUid + 1)] /\ mark'[f] = n
       /\ \A g \in Folders \ {f} : mark'[g] = mark[g]
  BY <1>10, <1>12
<1>14. ASSUME NEW g \in Folders
       PROVE mark'[g] <= uidNext'[g] /\ Covered(g, mark[g], {})'
  <2>1. PICK k : k = mark'[g] /\ k <= uidNext[g] /\ Covered(g, k, {})
    <3>1. CASE g = f  BY <3>1, <1>12, <1>13
    <3>2. CASE g # f
      <4>1. mark'[g] = mark[g]  BY <3>2, <1>13
      <4>2. QED  BY <4>1, <1>6 DEF Data
    <3>3. QED  BY <3>1, <3>2
  <2>2. Covered(g, k, {})'  BY <2>1, <1>1, <1>2, <1>4 DEF Covered
  <2>3. QED  BY <2>1, <2>2, <1>1
<1>15. Data'  BY <1>1, <1>6, <1>7, <1>8, <1>9, <1>13, <1>14 DEF Data
<1>16. Calm  BY <1>1, <1>3 DEF Calm, atServer
<1>17. QED  BY <1>5, <1>15, <1>16

LEMMA CloseStep ==
  ASSUME Known, NEW r \in Runs, Close(r)
  PROVE  Known' /\ KeepsStored
PROOF
<1>1. /\ RunKnows(r) /\ run[r].pc = "close"
      /\ UNCHANGED <<atServer, unthreaded, skipped, crossed, row, purged, failures>>
  BY DEF Known, FolderInv, Close, At
<1>2. PICK f \in Folders, top \in Nat :
        /\ f = run[r].folder /\ top = run[r].top /\ top \in 1..uidNext[f]
  BY <1>1, BatchFacts
<1>3. Covered(f, top, {})  BY <1>1, <1>2 DEF RunKnows
<1>4. top \in 0..uidNext[f]  BY <1>2, Typing
<1>5. mark' = [mark EXCEPT ![f] = top] /\ Goto(r, Idle)  BY <1>2 DEF Close
<1>6. Env /\ Data' /\ Calm  BY <1>1, <1>3, <1>4, <1>5, MarkWritten
<1>7. RunKnows(r)'  BY <1>5, Goes, KnowsIdle
<1>8. QED  BY <1>5, <1>6, <1>7, MovedOn DEF Idle

LEMMA OpenStep ==
  ASSUME Known, NEW r \in Runs, NEW f \in Folders, Open(r, f)
  PROVE  Known' /\ KeepsStored
PROOF
<1>1. UNCHANGED <<atServer, unthreaded, skipped, crossed, row, purged, failures>>  BY DEF Open
<1>2. uidNext[f] \in Nat /\ uidNext[f] >= 1 /\ mark[f] \in Nat /\ mark[f] <= uidNext[f]
  BY Typing
<1>3. PICK n \in 0..uidNext[f] : n = IF mark[f] = 0 THEN 1 ELSE mark[f]  BY <1>2
<1>4. Covered(f, n, {})
  <2>1. CASE mark[f] = 0
    <3>1. 1..(n - 1) = {}  BY <2>1, <1>3
    <3>2. QED  BY <3>1 DEF Covered
  <2>2. CASE mark[f] # 0  BY <2>2, <1>3, DataHolds DEF Data
  <2>3. QED  BY <2>1, <2>2
<1>5. mark' = [mark EXCEPT ![f] = n]  BY <1>3 DEF Open
<1>6. Env /\ Data' /\ Calm  BY <1>1, <1>4, <1>5, MarkWritten
<1>7. PICK s : Goto(r, s) /\ s = [pc |-> "readRow", folder |-> f, next |-> uidNext[f]]
  BY DEF Open
<1>8. run'[r] = s  BY <1>7, Goes
<1>9. uidNext[f] \in 1..uidNext'[f]  BY <1>1, <1>2 DEF atServer
<1>10. RunKnows(r)'
  <2>1. run'[r].pc = "readRow" /\ run'[r].folder = f /\ run'[r].next \in 1..uidNext'[f]
    BY <1>7, <1>8, <1>9
  <2>2. QED  BY <2>1 DEF RunKnows, Steps
<1>11. QED  BY <1>6, <1>7, <1>10, MovedOn

LEMMA FailStep ==
  ASSUME Known, NEW r \in Runs, Fail(r)
  PROVE  Known' /\ KeepsStored
PROOF
<1>1. UNCHANGED <<atServer, unthreaded, skipped, crossed, mark, row, purged>> /\ Goto(r, Idle)
  BY DEF Fail
<1>2. /\ skipped' = skipped /\ skipped \subseteq Mails
      /\ crossed' = crossed /\ crossed \subseteq Mails
      /\ unthreaded' \in BOOLEAN /\ failures' \in 0..MaxFailures
  BY DataHolds DEF Data, Fail, Known, FolderAssumption
<1>3. Env /\ Data' /\ Calm  BY <1>1, <1>2, Reads
<1>4. RunKnows(r)'  BY <1>1, Goes, KnowsIdle
<1>5. QED  BY <1>1, <1>3, <1>4, MovedOn DEF Idle

LEMMA ToggleStep ==
  ASSUME Known, ToggleThreading
  PROVE  Known' /\ KeepsStored
PROOF
<1>1. UNCHANGED <<atServer, skipped, crossed, mark, row, purged>> /\ run' = run
  BY DEF ToggleThreading
<1>2. /\ skipped' = skipped /\ skipped \subseteq Mails
      /\ crossed' = crossed /\ crossed \subseteq Mails
      /\ unthreaded' \in BOOLEAN /\ failures' \in 0..MaxFailures
  BY DataHolds DEF Data, ToggleThreading
<1>3. Env /\ Data' /\ Calm  BY <1>1, <1>2, Reads
<1>4. QED  BY <1>1, <1>3, NobodyMovedOn

\* What a step of the server owes.
LEMMA ServerChanged ==
  ASSUME Known, UNCHANGED <<unthreaded, skipped, crossed, mark, row, purged, run, failures>>,
         server' \in [Folders -> [Mails -> 0..MaxUid]],
         uidNext' \in [Folders -> 1..(MaxUid + 1)],
         \A f \in Folders : uidNext[f] <= uidNext'[f],
         wandered \subseteq wandered', wandered' \subseteq Mails,
         \A f \in Folders, m \in Mails :
           server'[f][m] \in {server[f][m], 0, uidNext[f]},
         \A f \in Folders, m \in Mails :
           m \notin wandered' /\ server[f][m] > 0 => server'[f][m] = server[f][m],
         Server', NEW x \in Mails,
         \A f \in Folders, m \in Mails \ {x} : server'[f][m] = server[f][m],
         \/ x \in wandered'
         \/ /\ x \notin wandered /\ \A f \in Folders : server[f][x] = 0
            /\ \A i \in RowIds : row[i] # NoRow => row[i].mail # x
  PROVE  Known' /\ KeepsStored
PROOF
<1>1. /\ unthreaded' = unthreaded /\ skipped' = skipped /\ mark' = mark
      /\ crossed' = crossed /\ row' = row /\ purged' = purged /\ run' = run /\ failures' = failures
  OBVIOUS
<1>2. Settled' \subseteq Settled  BY <1>1 DEF Settled
<1>3. Stored' = Stored  BY <1>1 DEF Stored
<1>4. \A m : StoredMail(m)' <=> StoredMail(m)  BY <1>1, <1>3 DEF StoredMail
<1>5. \A f \in Folders : uidNext'[f] \in Nat /\ uidNext'[f] \in 1..(MaxUid + 1)
  <2>1. MaxUid \in Nat  BY Typing
  <2>2. QED  BY <2>1
<1>6. Env  BY <1>1, <1>2, <1>4, <1>5 DEF Env, KeepsStored
<1>7. Data  BY DataHolds
<1>8. RowsSighted'
  <2>1. ASSUME NEW i \in RowIds, row'[i] # NoRow
        PROVE Sighting(row[i].folder, row[i].uid, row[i].mail)'
    <3>1. PICK f \in Folders, u \in Uids, m \in Mails :
            f = row[i].folder /\ u = row[i].uid /\ m = row[i].mail
      BY <1>1, <2>1, RowFacts, SightedUid
    <3>2. Sighting(f, u, m)  BY <1>1, <2>1, <3>1, RowFacts
    <3>3. Sighting(f, u, m)'  BY <1>6, <3>2, SightingKept
    <3>4. QED  BY <1>1, <3>1, <3>3
  <2>2. QED  BY <2>1 DEF RowsSighted
<1>9. UniquePlaces' /\ TrashedThere'
  BY <1>1, <1>3, <1>7 DEF Data, UniquePlaces, TrashedThere
<1>10. ASSUME NEW f \in Folders
       PROVE mark'[f] <= uidNext'[f] /\ Covered(f, mark[f], {})'
  <2>1. PICK n \in Nat : n = mark[f]  BY Typing
  <2>2. n <= uidNext[f] /\ uidNext[f] \in Nat  BY <2>1, Typing
  <2>3. Covered(f, n, {})  BY <2>1, <1>7 DEF Data
  <2>4. Covered(f, n, {})'  BY <1>6, <2>2, <2>3, CoveredKept
  <2>5. n <= uidNext'[f]  BY <1>5, <2>2
  <2>6. QED  BY <1>1, <2>1, <2>4, <2>5
<1>11. Data'  BY <1>1, <1>7, <1>8, <1>9, <1>10 DEF Data
<1>12. NoMailTwice'
  <2>1. \A m : m \notin wandered' \cup crossed' => m \notin wandered \cup crossed  BY <1>1
  <2>2. QED  BY <1>1, <1>3, <2>1, SingleHolds DEF Single, NoMailTwice
<1>13. ASSUME NEW r \in Runs, NEW m \in Mails, m \notin wandered' \cup crossed',
              Storing(r, m)', InSeveral(m)'
       PROVE  ~StoredMail(m)' /\ \A q \in Runs \ {r} : ~Storing(q, m)'
  <2>1. \A q \in Runs : Storing(q, m)' <=> Storing(q, m)  BY <1>1, SameRun
  <2>2. CASE m = x
    <3>1. /\ m \notin wandered /\ \A f \in Folders : server[f][m] = 0
      BY <2>2, <1>13
    <3>2. PICK f \in Folders : \E u : Sighting(f, u, m)  BY <2>1, <1>13, StoringSeen
    <3>3. PICK u : Sighting(f, u, m)  BY <3>2
    <3>4. u = 0 /\ u \in 1..(uidNext[f] - 1)  BY <3>1, <3>2, <3>3 DEF Sighting
    <3>5. QED  BY <3>4, Typing
  <2>3. CASE m # x
    <3>1. InSeveral(m)  BY <2>3, <1>13 DEF InSeveral
    <3>2. m \notin wandered \cup crossed  BY <1>1, <1>13
    <3>3. ~StoredMail(m) /\ \A q \in Runs \ {r} : ~Storing(q, m)
      BY <2>1, <3>1, <3>2, <1>13, SingleHolds DEF Single, StoredByOne
    <3>4. QED  BY <3>3, <2>1, <1>4
  <2>4. QED  BY <2>2, <2>3
<1>14. Single'  BY <1>12, <1>13 DEF Single, StoredByOne
<1>15. QED  BY <1>1, <1>6, <1>11, <1>14, NobodyMoved

\* A mail that arrives in a folder set apart arrives in that one only.
LEMMA ArrivesApart ==
  ASSUME FolderAssumption, NEW fs \in Arrivals, NEW f \in fs, NEW g \in fs, f \in Apart
  PROVE  f = g
PROOF
<1>1. CASE Labels
  <2>1. \/ \E h \in Folders \cap Apart : fs = {h}
        \/ \E ls \in SUBSET (Folders \ Apart) : fs = ls \cup {"archive"}
    BY <1>1 DEF Arrivals
  <2>2. "archive" \notin Apart  BY DEF Apart
  <2>3. QED  BY <2>1, <2>2
<1>2. CASE ~Labels
  <2>1. \E h \in Folders : fs = {h}  BY <1>2 DEF Arrivals
  <2>2. QED  BY <2>1
<1>3. QED  BY <1>1, <1>2

LEMMA DeliverStep ==
  ASSUME Known, NEW m \in Mails, NEW fs \in Arrivals, Deliver(m, fs)
  PROVE  Known' /\ KeepsStored
PROOF
<1>1. /\ \A f \in fs : uidNext[f] <= MaxUid
      /\ \A g \in Folders : server[g][m] = 0
      /\ UNCHANGED <<unthreaded, skipped, crossed, mark, row, purged, run, failures>>
      /\ wandered' = wandered /\ m \notin wandered
      /\ \A i \in RowIds : row[i] # NoRow => row[i].mail # m
  BY DEF Deliver
<1>2. /\ server \in [Folders -> [Mails -> 0..MaxUid]]
      /\ uidNext \in [Folders -> 1..(MaxUid + 1)] /\ wandered \subseteq Mails
  BY DataHolds DEF Data
<1>3. MaxUid \in Nat /\ \A f \in Folders : uidNext[f] \in Nat /\ uidNext[f] >= 1
  BY Typing
<1>4. \A f \in fs \cap Folders : uidNext[f] \in 1..MaxUid  BY <1>1, <1>3
<1>5. /\ server' = [f \in Folders |->
           IF f \in fs THEN [server[f] EXCEPT ![m] = uidNext[f]] ELSE server[f]]
      /\ uidNext' = [f \in Folders |-> IF f \in fs THEN uidNext[f] + 1 ELSE uidNext[f]]
  BY DEF Deliver
<1>6. /\ server' \in [Folders -> [Mails -> 0..MaxUid]]
      /\ \A f \in Folders \cap fs : server'[f][m] = uidNext[f]
      /\ \A g \in Folders, n \in Mails : g \notin fs \/ n # m => server'[g][n] = server[g][n]
  <2>1. ASSUME NEW f \in Folders
        PROVE  /\ server'[f] \in [Mails -> 0..MaxUid]
               /\ f \in fs => server'[f][m] = uidNext[f]
               /\ \A n \in Mails : f \notin fs \/ n # m => server'[f][n] = server[f][n]
    <3>1. server[f] \in [Mails -> 0..MaxUid]  BY <1>2
    <3>2. CASE f \in fs
      <4>1. server'[f] = [server[f] EXCEPT ![m] = uidNext[f]]  BY <1>5, <3>2
      <4>2. uidNext[f] \in 0..MaxUid  BY <1>3, <1>4, <3>2
      <4>3. QED  BY <3>1, <3>2, <4>1, <4>2
    <3>3. CASE f \notin fs
      <4>1. server'[f] = server[f]  BY <1>5, <3>3
      <4>2. QED  BY <3>1, <3>3, <4>1
    <3>4. QED  BY <3>2, <3>3
  <2>2. DOMAIN server' = Folders /\ server' = [f \in Folders |-> server'[f]]  BY <1>5
  <2>3. QED  BY <2>1, <2>2
<1>7. /\ uidNext' \in [Folders -> 1..(MaxUid + 1)]
      /\ \A f \in Folders \cap fs : uidNext'[f] = uidNext[f] + 1
      /\ \A g \in Folders \ fs : uidNext'[g] = uidNext[g]
  <2>1. ASSUME NEW f \in Folders
        PROVE  (IF f \in fs THEN uidNext[f] + 1 ELSE uidNext[f]) \in 1..(MaxUid + 1)
    BY <1>2, <1>3, <1>4
  <2>2. QED  BY <1>5, <2>1
<1>8. \A g \in Folders : uidNext[g] <= uidNext'[g]
  BY <1>3, <1>7
<1>9. \A g \in Folders, n \in Mails : server'[g][n] \in {server[g][n], 0, uidNext[g]}
  BY <1>6
<1>10. \A g \in Folders, n \in Mails : server[g][n] > 0 => server'[g][n] = server[g][n]
  BY <1>1, <1>6
<1>11. Server'
  <2>1. Server  BY DataHolds DEF Data
  <2>2. \A g \in Folders, n \in Mails : server[g][n] \in Nat /\ server[g][n] < uidNext[g]
    BY Typing
  <2>3. \A g \in Folders, n \in Mails : server'[g][n] < uidNext'[g]
    <3>1. ASSUME NEW g \in Folders, NEW n \in Mails PROVE server'[g][n] < uidNext'[g]
      <4>1. CASE g \in fs /\ n = m  BY <4>1, <1>3, <1>6, <1>7
      <4>2. CASE g \notin fs \/ n # m
        <5>1. server'[g][n] = server[g][n]  BY <4>2, <1>6
        <5>2. uidNext[g] <= uidNext'[g] /\ uidNext'[g] \in Nat  BY <1>3, <1>7, <1>8
        <5>3. QED  BY <5>1, <5>2, <1>3, <2>2
      <4>3. QED  BY <4>1, <4>2
    <3>2. QED  BY <3>1
  <2>4. ASSUME NEW g \in Folders, NEW n \in Mails, NEW k \in Mails,
               server'[g][n] = server'[g][k], server'[g][n] > 0
        PROVE  n = k
    <3>1. ASSUME NEW x \in Mails, x # m, server'[g][x] = uidNext[g] PROVE FALSE
      <4>1. server'[g][x] = server[g][x]  BY <3>1, <1>6
      <4>2. server[g][x] \in Nat /\ server[g][x] < uidNext[g]  BY <2>2, <3>1
      <4>3. QED  BY <3>1, <4>1, <4>2, <1>3
    <3>2. CASE g \in fs /\ n = m  BY <3>1, <3>2, <2>4, <1>6
    <3>3. CASE g \in fs /\ k = m  BY <3>1, <3>3, <2>4, <1>6
    <3>4. CASE g \notin fs \/ (n # m /\ k # m)  BY <3>4, <2>1, <2>4, <1>6 DEF Server
    <3>5. QED  BY <3>2, <3>3, <3>4
  <2>5. ASSUME NEW g \in Folders, NEW h \in Folders, NEW n \in Mails \ wandered,
               server'[g][n] > 0, server'[h][n] > 0, g \in Apart
        PROVE  g = h
    <3>1. CASE n = m
      <4>1. ASSUME NEW x \in Folders, x \notin fs PROVE ~(server'[x][m] > 0)
        BY <4>1, <1>1, <1>6
      <4>2. g \in fs /\ h \in fs  BY <3>1, <4>1, <2>5
      <4>3. QED  BY <4>2, <2>5, ArrivesApart DEF Known
    <3>2. CASE n # m  BY <3>2, <2>1, <2>5, <1>6 DEF Server
    <3>3. QED  BY <3>1, <3>2
  <2>6. QED  BY <2>3, <2>4, <2>5, <1>1 DEF Server
<1>12. \A g \in Folders, n \in Mails \ {m} : server'[g][n] = server[g][n]  BY <1>6
<1>13. QED
  BY <1>1, <1>2, <1>6, <1>7, <1>8, <1>9, <1>10, <1>11, <1>12, ServerChanged

LEMMA ExpungeStep ==
  ASSUME Known, NEW m \in Mails, NEW f \in Folders, Expunge(m, f)
  PROVE  Known' /\ KeepsStored
PROOF
<1>1. /\ UNCHANGED <<unthreaded, skipped, crossed, mark, row, purged, run, failures>>
      /\ uidNext' = uidNext /\ wandered' = wandered \cup {m}
      /\ server' = [server EXCEPT ![f][m] = 0]
  BY DEF Expunge
<1>2. /\ server \in [Folders -> [Mails -> 0..MaxUid]] /\ MaxUid \in Nat
      /\ uidNext \in [Folders -> 1..(MaxUid + 1)] /\ wandered \subseteq Mails
  BY DataHolds, Typing DEF Data
<1>3. /\ server' \in [Folders -> [Mails -> 0..MaxUid]] /\ server'[f][m] = 0
      /\ \A g \in Folders, n \in Mails : g # f \/ n # m => server'[g][n] = server[g][n]
  BY <1>1, <1>2
<1>4. \A g \in Folders : uidNext'[g] \in 1..(MaxUid + 1) /\ uidNext[g] <= uidNext'[g]
  BY <1>1, Typing
<1>5. \A g \in Folders, n \in Mails : server'[g][n] \in {server[g][n], 0, uidNext[g]}
  BY <1>3
<1>6. \A g \in Folders, n \in Mails : n \notin wandered' => server'[g][n] = server[g][n]
  BY <1>1, <1>3
<1>7. Server'
  <2>1. Server  BY DataHolds DEF Data
  <2>2. \A g \in Folders, n \in Mails :
          server'[g][n] > 0 => server'[g][n] = server[g][n]
    BY <1>3
  <2>3. \A g \in Folders, n \in Mails : server'[g][n] < uidNext'[g]
    <3>1. \A g \in Folders, n \in Mails : server[g][n] < uidNext[g] /\ uidNext[g] > 0
      BY Typing
    <3>2. QED  BY <3>1, <1>1, <1>3
  <2>4. QED  BY <2>1, <2>2, <2>3, <1>1 DEF Server
<1>8. wandered' \subseteq Mails /\ wandered \subseteq wandered'  BY <1>1, <1>2
<1>a. m \in wandered' /\ \A g \in Folders, n \in Mails \ {m} : server'[g][n] = server[g][n]
  BY <1>1, <1>3
<1>9. uidNext' \in [Folders -> 1..(MaxUid + 1)]  BY <1>1, <1>2
<1>10. QED  BY <1>1, <1>3, <1>4, <1>5, <1>6, <1>7, <1>8, <1>9, <1>a, ServerChanged

LEMMA MoveStep ==
  ASSUME Known, NEW m \in Mails, NEW f \in Folders, NEW h \in Folders, Move(m, f, h)
  PROVE  Known' /\ KeepsStored
PROOF
<1>1. /\ UNCHANGED <<unthreaded, skipped, crossed, mark, row, purged, run, failures>>
      /\ wandered' = wandered \cup {m}
      /\ server[f][m] > 0 /\ server[h][m] = 0 /\ uidNext[h] <= MaxUid
  BY DEF Move
<1>2. /\ server \in [Folders -> [Mails -> 0..MaxUid]] /\ MaxUid \in Nat
      /\ uidNext \in [Folders -> 1..(MaxUid + 1)] /\ wandered \subseteq Mails
      /\ uidNext[h] \in Nat /\ uidNext[h] >= 1
  BY DataHolds, Typing DEF Data
<1>3. PICK u \in 1..MaxUid : u = uidNext[h]  BY <1>1, <1>2
<1>4. /\ server' = [server EXCEPT ![f][m] = 0, ![h][m] = u]
      /\ uidNext' = [uidNext EXCEPT ![h] = u + 1]
  BY <1>3 DEF Move
<1>5. f # h  BY <1>1, <1>2
<1>6. PICK mid : mid = [server EXCEPT ![f][m] = 0]  OBVIOUS
<1>7. mid \in [Folders -> [Mails -> 0..MaxUid]] /\ mid[f][m] = 0
      /\ \A g \in Folders, n \in Mails : g # f \/ n # m => mid[g][n] = server[g][n]
  BY <1>2, <1>6
<1>8. server' = [mid EXCEPT ![h][m] = u]  BY <1>4, <1>6
<1>9. /\ server' \in [Folders -> [Mails -> 0..MaxUid]]
      /\ server'[h][m] = u
      /\ \A g \in Folders, n \in Mails : g # h \/ n # m => server'[g][n] = mid[g][n]
  BY <1>2, <1>7, <1>8
<1>10. /\ server'[f][m] = 0
       /\ \A g \in Folders, n \in Mails :
            (g # f /\ g # h) \/ n # m => server'[g][n] = server[g][n]
  BY <1>5, <1>7, <1>9
<1>11. /\ uidNext' \in [Folders -> 1..(MaxUid + 1)] /\ uidNext'[h] = u + 1
       /\ \A g \in Folders \ {h} : uidNext'[g] = uidNext[g]
  BY <1>2, <1>4
<1>12. \A g \in Folders : uidNext[g] \in Nat /\ uidNext[g] <= uidNext'[g]
  BY <1>2, <1>3, <1>11, Typing
<1>13. \A g \in Folders, n \in Mails : server'[g][n] \in {server[g][n], 0, uidNext[g]}
  BY <1>3, <1>9, <1>10
<1>14. \A g \in Folders, n \in Mails : n \notin wandered' => server'[g][n] = server[g][n]
  BY <1>1, <1>10
<1>15. Server'
  <2>1. Server  BY DataHolds DEF Data
  <2>2. \A g \in Folders, n \in Mails : server[g][n] \in Nat /\ server[g][n] < uidNext[g]
    BY Typing
  <2>3. \A g \in Folders, n \in Mails : server'[g][n] < uidNext'[g]
    <3>1. ASSUME NEW g \in Folders, NEW n \in Mails PROVE server'[g][n] < uidNext'[g]
      <4>1. CASE g = h /\ n = m  BY <4>1, <1>3, <1>9, <1>11
      <4>2. CASE g = f /\ n = m
        <5>1. uidNext[f] \in Nat /\ uidNext[f] >= 1 /\ uidNext[f] <= uidNext'[f]
              /\ uidNext'[f] \in Nat
          BY <1>2, <1>11, <1>12, Typing
        <5>2. QED  BY <4>2, <5>1, <1>10
      <4>3. CASE (g # f /\ g # h) \/ n # m
        <5>1. server'[g][n] = server[g][n]  BY <4>3, <1>10
        <5>2. uidNext'[g] \in Nat  BY <1>2, <1>11
        <5>3. QED  BY <5>1, <5>2, <2>2, <1>12
      <4>4. QED  BY <4>1, <4>2, <4>3
    <3>2. QED  BY <3>1
  <2>4. ASSUME NEW g \in Folders, NEW n \in Mails, n # m
        PROVE  server'[g][n] = server[g][n] /\ (g = h => server'[g][n] # u)
    <3>1. server'[g][n] = server[g][n]  BY <2>4, <1>10
    <3>2. server[h][n] < uidNext[h] /\ server[h][n] \in Nat  BY <2>2
    <3>3. QED  BY <3>1, <3>2, <1>2, <1>3
  <2>5. ASSUME NEW g \in Folders, NEW n \in Mails, NEW k \in Mails,
               server'[g][n] = server'[g][k], server'[g][n] > 0
        PROVE  n = k
    <3>1. ASSUME NEW x \in Mails, x # m, server'[g][x] = server'[g][m], server'[g][x] > 0
          PROVE  FALSE
      <4>1. server'[g][x] = server[g][x]  BY <3>1, <2>4
      <4>2. CASE g = h  BY <3>1, <4>2, <2>4, <1>9
      <4>3. CASE g = f  BY <3>1, <4>3, <1>10
      <4>4. CASE g # f /\ g # h
        <5>1. server'[g][m] = server[g][m]  BY <4>4, <1>10
        <5>2. QED  BY <5>1, <4>1, <3>1, <2>1 DEF Server
      <4>5. QED  BY <4>2, <4>3, <4>4
    <3>2. CASE n = m /\ k # m  BY <3>1, <3>2, <2>5
    <3>3. CASE n # m /\ k = m  BY <3>1, <3>3, <2>5
    <3>4. CASE n # m /\ k # m
      <4>1. server'[g][n] = server[g][n] /\ server'[g][k] = server[g][k]
        BY <3>4, <2>4
      <4>2. QED  BY <4>1, <2>1, <2>5 DEF Server
    <3>5. QED  BY <3>2, <3>3, <3>4
  <2>6. ASSUME NEW g \in Folders, NEW k \in Folders, NEW n \in Mails \ wandered',
               server'[g][n] > 0, server'[k][n] > 0, g \in Apart
        PROVE  g = k
    <3>1. n # m /\ n \notin wandered /\ n \in Mails  BY <1>1
    <3>2. server'[g][n] = server[g][n] /\ server'[k][n] = server[k][n]  BY <3>1, <2>4
    <3>3. QED  BY <3>1, <3>2, <2>1, <2>6 DEF Server
  <2>7. QED  BY <2>3, <2>5, <2>6 DEF Server
<1>16. wandered' \subseteq Mails /\ wandered \subseteq wandered'  BY <1>1, <1>2
<1>a. m \in wandered' /\ \A g \in Folders, n \in Mails \ {m} : server'[g][n] = server[g][n]
  BY <1>1, <1>10
<1>17. QED
  BY <1>1, <1>9, <1>11, <1>12, <1>13, <1>14, <1>15, <1>16, <1>a, ServerChanged

(***************************************************************************)
(* The invariant                                                            *)
(***************************************************************************)
LEMMA InitKnown == ASSUME FolderAssumption, Init PROVE Known
PROOF
<1>1. MaxUid \in Nat /\ MaxFailures \in Nat  BY DEF FolderAssumption
<1>2. /\ \A f \in Folders, m \in Mails : server[f][m] = 0
      /\ \A f \in Folders : uidNext[f] = 1 /\ mark[f] = 0
      /\ \A i \in RowIds : row[i] = NoRow
      /\ \A r \in Runs : run[r] = Idle
      /\ DOMAIN row = RowIds /\ DOMAIN run = Runs
  BY DEF Init
<1>3. TypeOK
  <2>1. server \in [Folders -> [Mails -> 0..MaxUid]]  BY <1>1 DEF Init
  <2>2. uidNext \in [Folders -> 1..(MaxUid + 1)]  BY <1>1 DEF Init
  <2>3. mark \in [Folders -> 0..(MaxUid + 1)]  BY <1>1 DEF Init
  <2>4. wandered = {} /\ skipped = {} /\ purged = {} /\ crossed = {}
        /\ unthreaded \in BOOLEAN
    BY DEF Init
  <2>5. failures \in 0..MaxFailures  BY <1>1 DEF Init
  <2>6. \A r \in Runs : run[r].pc \in Steps  BY <1>2 DEF Idle, Steps
  <2>7. QED  BY <1>2, <2>1, <2>2, <2>3, <2>4, <2>5, <2>6 DEF TypeOK
<1>4. Stored = {}  BY <1>2 DEF Stored, NoRow
<1>5. Server  BY <1>2 DEF Server
<1>6. /\ RowsSighted /\ UniquePlaces /\ TrashedThere
      /\ NoMailTwice /\ StoredByOne
  <2>1. \A r \in Runs : \A m : ~Storing(r, m)  BY <1>2 DEF Storing, At, Idle
  <2>2. QED
    BY <1>2, <1>4, <2>1 DEF RowsSighted, UniquePlaces, TrashedThere, NoMailTwice, StoredByOne
<1>7. \A f \in Folders : mark[f] <= uidNext[f] /\ Covered(f, mark[f], {})
  <2>1. 1..(0 - 1) = {}  OBVIOUS
  <2>2. QED  BY <2>1, <1>2 DEF Covered
<1>8. \A r \in Runs : RunKnows(r)  BY <1>2 DEF RunKnows, Idle, Steps
<1>9. QED  BY <1>2, <1>3, <1>5, <1>6, <1>7, <1>8 DEF Known, FolderInv

LEMMA RunStepKnown == ASSUME Known, NEW r \in Runs, RunStep(r) PROVE Known' /\ KeepsStored
BY ReadRowStep, SearchStep, SearchAllStep, CompareStep, PurgeStep, FetchStep, LookStep,
   MoveRowStep, CreateStep, DedupeStep, DropStep, LookBatchStep, MoveBatchStep,
   CreateBatchStep, CloseStep DEF RunStep

LEMMA StutterKnown == ASSUME Known, UNCHANGED vars PROVE Known' /\ KeepsStored
PROOF
<1>1. UNCHANGED <<atServer, unthreaded, skipped, crossed, mark, row, purged, failures>>
      /\ run' = run
  BY DEF vars
<1>2. Reading' = Reading  BY <1>1 DEF Reading
<1>3. Env /\ Data' /\ Calm  BY <1>2, ReadingReads
<1>4. QED  BY <1>1, <1>3, NobodyMovedOn

LEMMA NextKnown == ASSUME Known, [Next]_vars PROVE Known' /\ KeepsStored
PROOF
<1>1. CASE ServerStep
  BY <1>1, DeliverStep, ExpungeStep, MoveStep, ToggleStep DEF ServerStep
<1>2. CASE \E r \in Runs, f \in Folders : Open(r, f)  BY <1>2, OpenStep
<1>3. CASE \E r \in Runs : RunStep(r) \/ Fail(r)  BY <1>3, RunStepKnown, FailStep
<1>4. CASE UNCHANGED vars  BY <1>4, StutterKnown
<1>5. QED  BY <1>1, <1>2, <1>3, <1>4 DEF Next

LEMMA InvHolds == ASSUME FolderAssumption PROVE Spec => []Known
PROOF
<1>1. Init => Known  BY InitKnown
<1>2. Known /\ [Next]_vars => Known'  BY NextKnown
<1>3. QED  BY <1>1, <1>2, PTL DEF Spec

(***************************************************************************)
(* The theorems                                                             *)
(***************************************************************************)
\* The rows, the watermarks and the runs have their types.
THEOREM TypeCorrect == ASSUME FolderAssumption PROVE Spec => []TypeOK
PROOF
<1>1. Known => TypeOK  BY DEF Known, FolderInv
<1>2. QED  BY <1>1, InvHolds, PTL

\* syncFolder never moves a watermark past a mail that has no row: what a queue
\* run will not look for again is stored, with any number of runs, folders and
\* mails, whichever runs fail half way.
THEOREM MailsAreNotSkipped == ASSUME FolderAssumption PROVE Spec => []NoMailSkipped
PROOF
<1>1. Known => NoMailSkipped
  <2>1. ASSUME Known PROVE NoMailSkipped
    <3>1. \A f \in Folders : Covered(f, mark[f], {})  BY <2>1, DataHolds DEF Data
    <3>2. QED  BY <3>1 DEF NoMailSkipped, Covered
  <2>2. QED  BY <2>1
<1>2. QED  BY <1>1, InvHolds, PTL

\* A mail that stays where it arrived has one row, although upsertMessage looks for
\* the row in one step and creates it in another, and nothing keeps two runs
\* apart: in one folder the unique index refuses a second one, and of a mail in
\* several folders there is a second one only when two runs stored it at once.
THEOREM MailsAreStoredOnce == ASSUME FolderAssumption PROVE Spec => []NoMailTwice
PROOF
<1>1. Known => NoMailTwice  BY DEF Known, FolderInv
<1>2. QED  BY <1>1, InvHolds, PTL

\* A row disappears only with a mail that left its folder, or by the deletion of
\* an interactive run whose search is older than the row.
THEOREM StoredMailsStay == ASSUME FolderAssumption PROVE Spec => StoredStays
PROOF
<1>1. Known /\ [Next]_vars => [KeepsStored]_vars  BY NextKnown
<1>2. QED  BY <1>1, InvHolds, PTL DEF StoredStays, Spec
=============================================================================
