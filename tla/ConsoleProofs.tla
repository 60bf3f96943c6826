--------------------------- MODULE ConsoleProofs ---------------------------
(***************************************************************************)
(* The two windows, for any number of sub-games, of passes and launches,   *)
(* any saved logs and any number of presses.                               *)
(***************************************************************************)
EXTENDS Console, TLAPS

NoFinal == \A e \in events : e.kind \notin Finals

(* Whoever could begin a pass finds nobody at work: a closed window has killed *)
(* its workers, an idle one has none, and a scheduled rebuild comes from a     *)
(* worker that has already left.                                               *)
Quiet ==
  /\ ~open => \A p \in Passes : ~Owns(p)
  /\ ~in_progress => rebuilds = 0 /\ NoFinal
  /\ in_progress => pass >= 1
  /\ rebuilds > 0 => rebuilds = 1 /\ NoFinal

(* The files of the worker at work are those it has written, then the one it   *)
(* is at, then older ones.                                                     *)
OwnFiles ==
  \A p \in Passes :
    /\ phase[p] \in {"none", "setup", "series"} =>
         written[p] = 0 /\ \A f \in Files : disk[f].pass < p
    /\ phase[p] = "write" => written[p] < MatchAt
    /\ phase[p] \in {"emit", "write"} =>
         /\ \A f \in 1 .. written[p] : disk[f].pass = p /\ disk[f].whole
         /\ \A f \in Files : f > written[p] /\ (phase[p] = "write" => f > written[p] + 1) => disk[f].pass < p
         /\ phase[p] = "write" => disk[written[p] + 1].pass = p

(* Files grow older in the order of writing, and what has a file of its own    *)
(* pass after it is whole.                                                     *)
Falling ==
  \A f, g \in Files : f < g =>
    /\ disk[f].pass >= disk[g].pass
    /\ disk[f].pass = disk[g].pass => disk[f].whole

(* What is complete, announced or about to be, is written. *)
Complete ==
  /\ \A e \in events : e.kind = "series_complete" => \A f \in Files : disk[f].pass >= e.pass
  /\ \A p \in shown : \A f \in Files : disk[f].pass >= p

LiveInv == LiveTypeOK /\ OneRuntime /\ Quiet /\ OwnFiles /\ Falling /\ Complete

-----------------------------------------------------------------------------
LEMMA FilesNat ==
  /\ NumGames \in Nat /\ ResultAt \in Nat /\ MatchAt \in Nat /\ MatchAt = ResultAt + 1 /\ ResultAt >= 4
  /\ Files = 1 .. MatchAt /\ MaxPasses \in Nat
BY PlayerAssumption DEF ResultAt, MatchAt, Files

LEMMA LiveInitInv == LiveInit => LiveInv
<1> SUFFICES ASSUME LiveInit PROVE LiveInv
  OBVIOUS
<1> USE FilesNat, PlayerAssumption DEF LiveInit
<1>1. LiveTypeOK
  <2>1. phase \in [Passes -> Phases] /\ \A p \in Passes : phase[p] = "none" <=> p > pass
    BY DEF Passes, Phases
  <2>2. written \in [Passes -> 0 .. MatchAt] /\ disk \in [Files -> [pass : 0 .. pass, whole : BOOLEAN]]
    OBVIOUS
  <2>3. asked \subseteq 1 .. pass /\ shown \subseteq 1 .. pass /\ events \subseteq [kind : Kinds, pass : 1 .. pass]
    OBVIOUS
  <2>4. /\ open \in BOOLEAN /\ closing \in BOOLEAN /\ in_progress \in BOOLEAN
        /\ pass \in 0 .. MaxPasses /\ summary \in 0 .. pass /\ rebuilds \in Nat
    <3>1. open \in BOOLEAN /\ closing \in BOOLEAN /\ in_progress \in BOOLEAN
      OBVIOUS
    <3>2. pass \in 0 .. MaxPasses /\ summary \in 0 .. pass /\ rebuilds \in Nat
      OBVIOUS
    <3> QED
      BY <3>1, <3>2
  <2> QED
    BY ONLY <2>1, <2>2, <2>3, <2>4 DEF LiveTypeOK
<1>2. OneRuntime /\ Quiet /\ OwnFiles
  BY DEF OneRuntime, Quiet, OwnFiles, Owns, NoFinal, Passes
<1>3. Falling /\ Complete
  BY DEF Falling, Complete
<1> QED
  BY <1>1, <1>2, <1>3 DEF LiveInv

(* A pass is begun where nobody is at work. *)
LEMMA StartKeeps ==
  ASSUME LiveInv, open, Start, asked' \subseteq asked, summary' \in {0, summary},
         rebuilds' \in Nat, rebuilds' = 0,
         NoFinal, \A p \in Passes : ~Owns(p)
  PROVE  LiveInv'
<1> USE FilesNat, PlayerAssumption DEF Start, LiveInv
<1>1. LiveTypeOK'
  BY DEF LiveTypeOK, Passes, Phases
<1>2. OneRuntime'
  BY DEF OneRuntime, Owns, NoFinal, LiveTypeOK, Passes, Finals
<1>3. Quiet'
  BY DEF Quiet, Owns, NoFinal, LiveTypeOK, Passes, Finals
<1>4. OwnFiles'
  BY DEF OwnFiles, LiveTypeOK, Passes
<1>5. Falling' /\ Complete'
  BY DEF Falling, Complete
<1> QED
  BY <1>1, <1>2, <1>3, <1>4, <1>5

LEMMA TkKeeps == LiveInv /\ Tk => LiveInv'
<1> SUFFICES ASSUME LiveInv, Tk PROVE LiveInv'
  OBVIOUS
<1> USE FilesNat, PlayerAssumption DEF LiveInv
<1>1. CASE PressStart
  BY <1>1, StartKeeps DEF PressStart, Quiet, Owns, LiveTypeOK, OneRuntime
<1>2. CASE PressRestart
  <2>1. CASE in_progress
    <3>0. pass >= 1
      BY <2>1 DEF Quiet
    <3>2. asked' \subseteq 1 .. pass
      <4>1. pass \in 1 .. pass /\ asked \subseteq 1 .. pass
        BY <3>0 DEF LiveTypeOK
      <4> QED
        BY <1>2, <2>1, <4>1 DEF PressRestart
    <3>1. LiveTypeOK'
      BY <1>2, <2>1, <3>2 DEF PressRestart, LiveTypeOK, liveWindow
    <3> QED
      BY <1>2, <2>1, <3>1 DEF PressRestart, liveWindow, OneRuntime, Owns, Quiet, NoFinal, OwnFiles,
         Falling, Complete
  <2>2. CASE ~in_progress
    BY <1>2, <2>2, StartKeeps DEF PressRestart, RebuildAndStart, Quiet, OneRuntime, LiveTypeOK
  <2> QED
    BY <2>1, <2>2
<1>3. CASE Rebuild
  BY <1>3, StartKeeps DEF Rebuild, RebuildAndStart, Quiet, OneRuntime, LiveTypeOK
<1>4. CASE Drain
  <2>1. LiveTypeOK'
    BY <1>4 DEF Drain, LiveTypeOK
  <2>2. OneRuntime'
    BY <1>4 DEF Drain, OneRuntime, Owns
  <2>4. Quiet'
    <3>1. ~in_progress' => rebuilds' = 0
      <4>1. CASE in_progress /\ \E e \in events : e.kind \in Finals
        <5>1. ~(rebuilds > 0)
          BY <4>1 DEF Quiet, NoFinal
        <5> QED
          BY <1>4, <5>1 DEF Drain, LiveTypeOK
      <4> QED
        BY <1>4, <4>1 DEF Drain, Quiet
    <3> QED
      BY <1>4, <3>1 DEF Drain, Quiet, NoFinal, Owns
  <2>3. OwnFiles' /\ Falling' /\ Complete'
    BY <1>4 DEF Drain, OwnFiles, Falling, Complete
  <2> QED
    BY <2>1, <2>2, <2>3, <2>4
<1>5. CASE PressQuit
  BY <1>5 DEF PressQuit, LiveTypeOK, OneRuntime, Owns, Quiet, NoFinal, OwnFiles, Falling, Complete
<1>6. CASE Destroy
  <2>1. LiveTypeOK'
    BY <1>6 DEF Destroy, LiveTypeOK, Phases, Passes
  <2>2. OneRuntime' /\ Quiet'
    BY <1>6 DEF Destroy, OneRuntime, Owns, Quiet, NoFinal
  <2>3. OwnFiles' /\ Falling' /\ Complete'
    BY <1>6 DEF Destroy, OwnFiles, Falling, Complete
  <2> QED
    BY <2>1, <2>2, <2>3
<1>7. CASE Launch
  <2>1. LiveTypeOK'
    <3>1. /\ asked' \subseteq 1 .. pass' /\ summary' \in 0 .. pass' /\ rebuilds' \in Nat
          /\ events' \subseteq [kind : Kinds, pass : 1 .. pass']
      BY <1>7 DEF Launch, LiveTypeOK
    <3> QED
      BY <1>7, <3>1 DEF Launch, LiveTypeOK
  <2>2. OneRuntime' /\ Quiet' /\ OwnFiles' /\ Falling' /\ Complete'
    BY <1>7 DEF Launch, OneRuntime, Owns, Quiet, NoFinal, OwnFiles, Falling, Complete
  <2> QED
    BY <2>1, <2>2
<1> QED
  BY <1>1, <1>2, <1>3, <1>4, <1>5, <1>6, <1>7 DEF Tk

LEMMA WorkerKeeps ==
  ASSUME LiveInv, NEW p \in Passes, Worker(p)
  PROVE  LiveInv'
<1> USE FilesNat, PlayerAssumption DEF LiveInv, liveWindow, Goes, Post
<1>0. p \in 1 .. MaxPasses /\ pass \in 0 .. MaxPasses /\ (phase[p] # "none" => p \in 1 .. pass)
  BY DEF LiveTypeOK, Passes
<1>1. CASE Prepare(p) \/ EndSeries(p)
  <2>1. LiveTypeOK'
    BY <1>0, <1>1 DEF Prepare, EndSeries, LiveTypeOK, Phases
  <2>0. /\ Owns(p) /\ Owns(p)' /\ \A q \in Passes : q # p => phase'[q] = phase[q]
        /\ p = pass /\ in_progress /\ rebuilds = 0 /\ NoFinal
    BY <1>1 DEF Prepare, EndSeries, OneRuntime, Owns, NoFinal, LiveTypeOK
  <2>2. OneRuntime' /\ Quiet'
    BY <1>0, <1>1, <2>0 DEF Prepare, EndSeries, OneRuntime, Owns, Quiet, NoFinal
  <2>3. OwnFiles'
    <3>1. written' = written /\ disk' = disk
      BY <1>1 DEF Prepare, EndSeries
    <3>2. /\ written[p] = 0 /\ \A f \in Files : disk[f].pass < p
          /\ phase'[p] \in {"series", "emit"}
      BY <1>1 DEF Prepare, EndSeries, OwnFiles, LiveTypeOK
    <3>3. ASSUME NEW q \in Passes, q # p PROVE phase'[q] = phase[q]
      BY <2>0, <3>3
    <3> QED
      BY <3>1, <3>2, <3>3 DEF OwnFiles
  <2>4. Falling' /\ Complete'
    BY <1>1 DEF Prepare, EndSeries, Falling, Complete
  <2> QED
    BY <2>1, <2>2, <2>3, <2>4
<1>2. CASE PlayOn(p)
  <2>0. phase' = phase
    BY <1>2 DEF PlayOn, LiveTypeOK
  <2>1. LiveTypeOK'
    <3>1. p \in 1 .. pass
      BY <1>0, <1>2 DEF PlayOn
    <3>2. events' \subseteq [kind : Kinds, pass : 1 .. pass]
      BY <1>2, <3>1 DEF PlayOn, LiveTypeOK, Kinds
    <3>3. asked' \subseteq 1 .. pass
      BY <1>2 DEF PlayOn, LiveTypeOK
    <3> QED
      BY <1>2, <2>0, <3>2, <3>3 DEF PlayOn, LiveTypeOK
  <2>2. OneRuntime' /\ Quiet'
    BY <1>2, <2>0 DEF PlayOn, OneRuntime, Owns, Quiet, NoFinal, Finals
  <2>3. OwnFiles' /\ Falling' /\ Complete'
    BY <1>2, <2>0 DEF PlayOn, OwnFiles, Falling, Complete
  <2> QED
    BY <2>1, <2>2, <2>3
<1>3. CASE RestartStorm(p)
  <2>1. LiveTypeOK'
    BY <1>0, <1>3 DEF RestartStorm, LiveTypeOK, Phases
  <2>2. p = pass /\ in_progress /\ rebuilds = 0 /\ NoFinal
    BY <1>3 DEF RestartStorm, OneRuntime, Owns, NoFinal
  <2>3. OneRuntime' /\ Quiet'
    BY <1>3, <2>2 DEF RestartStorm, OneRuntime, Owns, Quiet, NoFinal, LiveTypeOK
  <2>4. OwnFiles' /\ Falling' /\ Complete'
    BY <1>3 DEF RestartStorm, OwnFiles, Falling, Complete, LiveTypeOK
  <2> QED
    BY <2>1, <2>3, <2>4
<1>4. CASE OpenFile(p)
  <2>0. p = pass /\ written[p] \in 0 .. MatchAt - 1
    BY <1>4 DEF OpenFile, OneRuntime, Owns, LiveTypeOK
  <2> DEFINE n == written[p] + 1
  <2>a. n \in Files /\ disk' = [disk EXCEPT ![n] = [pass |-> p, whole |-> FALSE]]
    BY <1>4, <2>0 DEF OpenFile, NextFile
  <2>b. /\ \A f \in 1 .. written[p] : disk[f].pass = p /\ disk[f].whole
        /\ \A f \in Files : f > written[p] => disk[f].pass < p
    BY <1>4, <2>0 DEF OpenFile, OwnFiles
  <2>c. /\ disk'[n] = [pass |-> p, whole |-> FALSE] /\ \A f \in Files : f # n => disk'[f] = disk[f]
        /\ disk' \in [Files -> [pass : 0 .. pass, whole : BOOLEAN]]
    BY <1>0, <2>a, <2>0 DEF LiveTypeOK
  <2>d. \A f \in Files : disk[f].pass \in 0 .. pass
    BY DEF LiveTypeOK
  <2> HIDE DEF n
  <2>1. LiveTypeOK'
    BY <1>0, <1>4, <2>c DEF OpenFile, LiveTypeOK, Phases
  <2>2. OneRuntime' /\ Quiet'
    BY <1>4, <2>0 DEF OpenFile, OneRuntime, Owns, Quiet, NoFinal, LiveTypeOK
  <2>3. OwnFiles'
    <3>1. ASSUME NEW q \in Passes, phase'[q] \in {"none", "setup", "series"}
          PROVE  written'[q] = 0 /\ \A f \in Files : disk'[f].pass < q
      <4>1. q # p /\ phase[q] = phase'[q]
        BY <1>4, <3>1 DEF OpenFile, LiveTypeOK
      <4>2. q > p
        BY <1>4, <2>0, <3>1, <4>1 DEF OpenFile, LiveTypeOK, OneRuntime, Owns, Passes
      <4> QED
        BY <1>4, <2>c, <3>1, <4>1, <4>2 DEF OpenFile, OwnFiles
    <3>2. ASSUME NEW q \in Passes, phase'[q] \in {"emit", "write"}
          PROVE  q = p /\ phase'[q] = "write" /\ written' = written
      BY <1>4, <2>0, <3>2 DEF OpenFile, LiveTypeOK, OneRuntime, Owns
    <3>3. /\ \A f \in 1 .. written[p] : disk'[f].pass = p /\ disk'[f].whole
          /\ \A f \in Files : f > written[p] + 1 => disk'[f].pass < p
          /\ disk'[written[p] + 1].pass = p
      <4>1. /\ disk'[n].pass = p
            /\ \A f \in Files : f # n => disk'[f] = disk[f]
        BY <2>c
      <4>2. \A f \in 1 .. written[p] : f \in Files /\ f # n
        BY <2>0 DEF n
      <4>3. \A f \in Files : f > written[p] + 1 => f > written[p] /\ f # n
        BY <2>0 DEF n
      <4>4. \A f \in 1 .. written[p] : disk'[f].pass = p /\ disk'[f].whole
        BY <2>b, <4>1, <4>2
      <4>5. \A f \in Files : f > written[p] + 1 => disk'[f].pass < p
        BY <2>b, <4>1, <4>3
      <4> QED
        BY <4>1, <4>4, <4>5 DEF n
    <3> QED
      BY <2>0, <3>1, <3>2, <3>3 DEF OwnFiles
  <2>4. Falling'
    <3> SUFFICES ASSUME NEW f \in Files, NEW g \in Files, f < g
                 PROVE  disk'[f].pass >= disk'[g].pass /\ (disk'[f].pass = disk'[g].pass => disk'[f].whole)
      BY DEF Falling
    <3>1. CASE f = n
      BY <2>0, <2>a, <2>b, <2>c, <2>d, <3>1 DEF n
    <3>2. CASE g = n
      BY <2>0, <2>a, <2>b, <2>c, <2>d, <3>2 DEF n
    <3>3. CASE f # n /\ g # n
      BY <2>c, <3>3 DEF Falling
    <3> QED
      BY <3>1, <3>2, <3>3
  <2>5. Complete'
    <3>1. \A f \in Files : disk'[f].pass >= disk[f].pass
      BY <2>0, <2>c, <2>d
    <3>2. \A f \in Files : disk'[f].pass \in Nat /\ disk[f].pass \in Nat
      BY <2>c, <2>d, <1>0
    <3> QED
      BY <1>4, <3>1, <3>2 DEF OpenFile, Complete, LiveTypeOK
  <2> QED
    BY <2>1, <2>2, <2>3, <2>4, <2>5
<1>5. CASE FillFile(p)
  <2>0. p = pass /\ written[p] \in 0 .. MatchAt - 1
    BY <1>5 DEF FillFile, OneRuntime, Owns, LiveTypeOK, OwnFiles
  <2> DEFINE n == written[p] + 1
  <2>a. n \in Files /\ disk' = [disk EXCEPT ![n].whole = TRUE]
    BY <1>5, <2>0 DEF FillFile, NextFile
  <2>c. /\ disk'[n].whole = TRUE /\ disk'[n].pass = disk[n].pass
        /\ \A f \in Files : f # n => disk'[f] = disk[f]
        /\ disk' \in [Files -> [pass : 0 .. pass, whole : BOOLEAN]]
    <3> DEFINE P == 0 .. pass
    <3>1. disk \in [Files -> [pass : P, whole : BOOLEAN]]
      BY DEF LiveTypeOK
    <3> HIDE DEF P, n
    <3>2. disk[n] \in [pass : P, whole : BOOLEAN]
      BY <2>a, <3>1
    <3>3. disk' = [disk EXCEPT ![n] = [disk[n] EXCEPT !.whole = TRUE]]
      BY <2>a
    <3>4. [disk[n] EXCEPT !.whole = TRUE] \in [pass : P, whole : BOOLEAN]
      BY <3>2
    <3>5. disk' \in [Files -> [pass : P, whole : BOOLEAN]]
      BY <2>a, <3>1, <3>3, <3>4
    <3>6. disk'[n] = [disk[n] EXCEPT !.whole = TRUE] /\ \A f \in Files : f # n => disk'[f] = disk[f]
      BY <2>a, <3>1, <3>3
    <3> QED
      BY <3>2, <3>5, <3>6 DEF P
  <2>d. \A f \in Files : disk'[f].pass = disk[f].pass /\ (disk[f].whole => disk'[f].whole)
    BY <2>c
  <2>e. written' = [written EXCEPT ![p] = n]
    BY <1>5, <2>0 DEF FillFile
  <2>1. LiveTypeOK'
    <3>1. phase' = [phase EXCEPT ![p] = "emit"] /\ phase[p] = "write"
      BY <1>5 DEF FillFile, Goes
    <3>2. phase' \in [Passes -> Phases] /\ \A q \in Passes : phase'[q] = "none" <=> q > pass
      BY <3>1 DEF LiveTypeOK, Phases
    <3>3. n \in 0 .. MatchAt
      BY <2>0
    <3> HIDE DEF n
    <3>4. written' \in [Passes -> 0 .. MatchAt]
      BY <2>e, <3>3 DEF LiveTypeOK
    <3> QED
      BY <1>5, <2>c, <3>2, <3>4 DEF FillFile, LiveTypeOK, liveWindow
  <2>2. OneRuntime' /\ Quiet'
    BY <1>5, <2>0 DEF FillFile, OneRuntime, Owns, Quiet, NoFinal, LiveTypeOK
  <2>3. OwnFiles'
    <3>1. ASSUME NEW q \in Passes, q # p PROVE phase'[q] = phase[q] /\ written'[q] = written[q] /\ ~Owns(q)
      BY <1>5, <2>0, <2>e, <3>1 DEF FillFile, LiveTypeOK, OneRuntime
    <3>2. phase'[p] = "emit" /\ written'[p] = n
      BY <1>5, <2>e DEF FillFile, LiveTypeOK
    <3>3. /\ \A f \in 1 .. n : disk'[f].pass = p /\ disk'[f].whole
          /\ \A f \in Files : f > n => disk'[f].pass < p
      <4>1. phase[p] = "write"
        BY <1>5 DEF FillFile, Goes
      <4>2. /\ \A f \in 1 .. written[p] : disk[f].pass = p /\ disk[f].whole
            /\ \A f \in Files : f > written[p] /\ f > written[p] + 1 => disk[f].pass < p
            /\ disk[n].pass = p
        BY <4>1 DEF OwnFiles
      <4>3. \A f \in 1 .. n : f \in Files /\ (f \in 1 .. written[p] \/ f = n)
        BY <2>0
      <4>4. \A f \in Files : f > n => f > written[p] /\ f > written[p] + 1
        BY <2>0
      <4> HIDE DEF n
      <4>5. \A f \in 1 .. n : disk'[f].pass = p /\ disk'[f].whole
        BY <2>c, <2>d, <4>2, <4>3
      <4>6. \A f \in Files : f > n => disk'[f].pass < p
        BY <2>d, <4>2, <4>4
      <4> QED
        BY <4>5, <4>6
    <3> QED
      BY <2>d, <3>1, <3>2, <3>3 DEF OwnFiles, Owns
  <2>4. Falling'
    BY <2>d DEF Falling
  <2>5. Complete'
    BY <1>5, <2>d DEF FillFile, Complete
  <2> QED
    BY <2>1, <2>2, <2>3, <2>4, <2>5
<1>6. CASE Announce(p)
  <2>0. p = pass /\ in_progress /\ rebuilds = 0 /\ \A q \in Passes : Owns(q) => q = p
    BY <1>6 DEF Announce, OneRuntime, Owns
  <2>1. LiveTypeOK'
    BY <1>0, <1>6 DEF Announce, LiveTypeOK, Phases, Kinds, Finals
  <2>2. OneRuntime' /\ Quiet'
    BY <1>6, <2>0 DEF Announce, OneRuntime, Owns, Quiet, NoFinal, LiveTypeOK
  <2>3. OwnFiles' /\ Falling'
    BY <1>6 DEF Announce, OwnFiles, Falling, LiveTypeOK
  <2>4. Complete'
    <3>1. \A f \in Files : disk[f].pass >= p
      BY <1>0, <1>6 DEF Announce, OwnFiles
    <3> QED
      BY <1>6, <3>1 DEF Announce, Complete
  <2> QED
    BY <2>1, <2>2, <2>3, <2>4
<1>7. CASE Return(p)
  <2>1. LiveTypeOK'
    BY <1>0, <1>7 DEF Return, LiveTypeOK, Phases
  <2>2. OneRuntime' /\ Quiet'
    BY <1>7 DEF Return, OneRuntime, Owns, Quiet, NoFinal, LiveTypeOK
  <2>3. OwnFiles' /\ Falling' /\ Complete'
    BY <1>7 DEF Return, OwnFiles, Falling, Complete, LiveTypeOK
  <2> QED
    BY <2>1, <2>2, <2>3
<1>8. CASE Fail(p)
  <2>0. p = pass /\ in_progress /\ rebuilds = 0 /\ \A q \in Passes : Owns(q) => q = p
    BY <1>8 DEF Fail, OneRuntime, Owns
  <2>1. LiveTypeOK'
    BY <1>0, <1>8 DEF Fail, LiveTypeOK, Phases, Kinds, Finals
  <2>2. OneRuntime' /\ Quiet'
    BY <1>8, <2>0 DEF Fail, OneRuntime, Owns, Quiet, NoFinal, LiveTypeOK
  <2>3. OwnFiles' /\ Falling'
    BY <1>8 DEF Fail, OwnFiles, Falling, LiveTypeOK
  <2>4. Complete'
    BY <1>8 DEF Fail, Complete
  <2> QED
    BY <2>1, <2>2, <2>3, <2>4
<1> QED
  BY <1>1, <1>2, <1>3, <1>4, <1>5, <1>6, <1>7, <1>8 DEF Worker, Emit

LEMMA LiveStep == LiveInv /\ [LiveNext]_liveVars => LiveInv'
<1> SUFFICES ASSUME LiveInv, [LiveNext]_liveVars PROVE LiveInv'
  OBVIOUS
<1>1. CASE LiveNext
  BY <1>1, TkKeeps, WorkerKeeps DEF LiveNext
<1>2. CASE UNCHANGED liveVars
  <2> USE <1>2 DEF liveVars, liveWindow, LiveInv
  <2>1. LiveTypeOK' /\ OneRuntime' /\ Quiet'
    BY DEF LiveTypeOK, OneRuntime, Owns, Quiet, NoFinal
  <2>2. OwnFiles' /\ Falling' /\ Complete'
    BY DEF OwnFiles, Falling, Complete
  <2> QED
    BY <2>1, <2>2
<1> QED
  BY <1>1, <1>2

-----------------------------------------------------------------------------
(* The head stands within the log, which is made of sequences. *)
HeadInv ==
  /\ log \in Opened
  /\ index \in Nat
  /\ visited = {log.my_log[i] : i \in 1 .. Upto(log.my_log)}
  /\ barriers = UNION {log.history[i] : i \in 1 .. Upto(log.history)}
  /\ folded = Upto(log.history)

LEMMA TracksTyped ==
  ASSUME log \in Opened
  PROVE  /\ log.my_log \in Seq(Cells) /\ log.history \in Seq(SUBSET Cells)
         /\ Len(log.my_log) \in Nat /\ Len(log.history) \in Nat /\ Len(log.opponent) \in Nat
         /\ log.my_log = <<>> <=> Len(log.my_log) = 0
<1>1. \A f \in Saved : /\ Tracks(f).my_log \in Seq(Cells)
                       /\ Tracks(f).history \in Seq(SUBSET Cells)
  BY ReplayAssumption DEF SavedFiles, Tracks
<1>2. PICK f \in Saved, o \in {<<>>} \cup {Tracks(g).my_log : g \in Saved} :
        log = [my_log |-> Tracks(f).my_log, history |-> Tracks(f).history, opponent |-> o]
  BY DEF Opened
<1>3. o \in Seq(Cells)
  <2>1. CASE o = <<>>
    BY <2>1
  <2>2. CASE \E g \in Saved : o = Tracks(g).my_log
    BY <1>1, <2>2
  <2> QED
    BY <2>1, <2>2
<1>4. log.my_log \in Seq(Cells) /\ log.history \in Seq(SUBSET Cells) /\ log.opponent \in Seq(Cells)
  BY <1>1, <1>2, <1>3
<1> QED
  BY <1>4

(* A reset shows the empty prefix. *)
LEMMA ResetKeeps == HeadInv /\ Reset /\ UNCHANGED log => HeadInv'
<1> SUFFICES ASSUME HeadInv, Reset, UNCHANGED log PROVE HeadInv'
  OBVIOUS
<1>1. Len(log.my_log) \in Nat /\ Len(log.history) \in Nat
  BY TracksTyped DEF HeadInv
<1>2. Upto(log.my_log)' = 0 /\ Upto(log.history)' = 0
  BY <1>1 DEF Reset, Upto
<1> QED
  BY <1>2 DEF Reset, HeadInv

LEMMA UnionGrows ==
  ASSUME NEW s, NEW n \in Nat
  PROVE  UNION {s[i] : i \in 1 .. n + 1} = (UNION {s[i] : i \in 1 .. n}) \cup s[n + 1]
<1> DEFINE More == UNION {s[i] : i \in 1 .. n + 1}
           Less == (UNION {s[i] : i \in 1 .. n}) \cup s[n + 1]
<1>1. 1 .. n + 1 = (1 .. n) \cup {n + 1}
  OBVIOUS
<1>2. ASSUME NEW c \in More PROVE c \in Less
  <2>1. PICK i \in 1 .. n + 1 : c \in s[i]
    OBVIOUS
  <2>2. i \in 1 .. n \/ i = n + 1
    BY <1>1
  <2>3. CASE i \in 1 .. n
    BY <2>1, <2>3
  <2>4. CASE i = n + 1
    <3>1. c \in s[n + 1]
      BY <2>1, <2>4
    <3> QED
      BY <3>1
  <2> QED
    BY <2>2, <2>3, <2>4
<1>3. ASSUME NEW c \in Less PROVE c \in More
  <2>1. CASE c \in s[n + 1]
    <3>1. n + 1 \in 1 .. n + 1
      OBVIOUS
    <3> QED
      BY <2>1, <3>1
  <2>2. CASE c \in UNION {s[i] : i \in 1 .. n}
    <3>1. PICK i \in 1 .. n : c \in s[i]
      BY <2>2
    <3>2. i \in 1 .. n + 1
      BY <1>1
    <3> QED
      BY <3>1, <3>2
  <2> QED
    BY <1>3, <2>1, <2>2
<1> QED
  <2>1. More \subseteq Less /\ Less \subseteq More
    BY <1>2, <1>3
  <2> HIDE DEF More, Less
  <2>2. More = Less
    BY <2>1
  <2> QED
    BY <2>2 DEF More, Less

(* A step adds what the next place of each track holds, where there is one. *)
LEMMA AdvanceKeeps == HeadInv /\ Advance /\ UNCHANGED log => HeadInv'
<1> SUFFICES ASSUME HeadInv, Advance, UNCHANGED log PROVE HeadInv'
  OBVIOUS
<1>1. Len(log.my_log) \in Nat /\ Len(log.history) \in Nat /\ index \in Nat /\ index' = index + 1
  BY TracksTyped DEF HeadInv, Advance
<1>2. visited' = {log.my_log[i] : i \in 1 .. Upto(log.my_log)'}
  <2>1. CASE index < Len(log.my_log)
    <3>1. Upto(log.my_log) = index /\ Upto(log.my_log)' = index + 1
      BY <1>1, <2>1 DEF Upto
    <3>2. 1 .. index + 1 = (1 .. index) \cup {index + 1}
      BY <1>1
    <3> QED
      BY <2>1, <3>1, <3>2 DEF Advance, HeadInv
  <2>2. CASE ~(index < Len(log.my_log))
    <3>1. Upto(log.my_log)' = Upto(log.my_log)
      BY <1>1, <2>2 DEF Upto
    <3> QED
      BY <2>2, <3>1 DEF Advance, HeadInv
  <2> QED
    BY <2>1, <2>2
<1>3. /\ barriers' = UNION {log.history[i] : i \in 1 .. Upto(log.history)'}
      /\ folded' = Upto(log.history)'
  <2>1. CASE index < Len(log.history)
    <3>1. Upto(log.history) = index /\ Upto(log.history)' = index + 1
      BY <1>1, <2>1 DEF Upto
    <3>2. 1 .. index + 1 = (1 .. index) \cup {index + 1}
      BY <1>1
    <3>3. UNION {log.history[i] : i \in 1 .. index + 1}
            = (UNION {log.history[i] : i \in 1 .. index}) \cup log.history[index + 1]
      BY <1>1, UnionGrows
    <3> QED
      BY <2>1, <3>1, <3>3 DEF Advance, HeadInv
  <2>2. CASE ~(index < Len(log.history))
    <3>1. Upto(log.history)' = Upto(log.history)
      BY <1>1, <2>2 DEF Upto
    <3> QED
      BY <2>2, <3>1 DEF Advance, HeadInv
  <2> QED
    BY <2>1, <2>2
<1> QED
  BY <1>1, <1>2, <1>3 DEF HeadInv

LEMMA ReplayStep == HeadInv /\ [ReplayNext]_replayVars => HeadInv'
<1> SUFFICES ASSUME HeadInv, [ReplayNext]_replayVars PROVE HeadInv'
  OBVIOUS
<1>1. UNCHANGED log
  BY DEF ReplayNext, replayVars, PressStep, PressAgain, PressGo, GoOn, PressPlay, Tick
<1>2. CASE Reset \/ Advance
  BY <1>1, <1>2, ResetKeeps, AdvanceKeeps
<1>3. CASE UNCHANGED head
  <2>1. UNCHANGED <<log, index, visited, barriers, folded>>
    BY <1>1, <1>3 DEF head
  <2> QED
    BY <2>1 DEF HeadInv, Upto
<1>4. Reset \/ Advance \/ UNCHANGED head
  BY DEF ReplayNext, replayVars, PressStep, PressAgain, PressGo, GoOn, PressPlay, Tick, AdvanceOrStop
<1> QED
  BY <1>2, <1>3, <1>4

LEMMA HeadShows == HeadInv => ShowsThePrefix
<1> SUFFICES ASSUME HeadInv PROVE ShowsThePrefix
  OBVIOUS
<1>1. /\ Len(log.my_log) \in Nat /\ index \in Nat
      /\ log.my_log = <<>> <=> Len(log.my_log) = 0
  BY TracksTyped DEF HeadInv
<1>2. Position \subseteq visited
  <2>1. CASE index = 0 \/ log.my_log = <<>>
    BY <2>1 DEF Position
  <2>2. CASE ~(index = 0 \/ log.my_log = <<>>)
    <3>1. Position = {log.my_log[Upto(log.my_log)]}
      BY <2>2 DEF Position, Upto
    <3>2. Upto(log.my_log) \in 1 .. Upto(log.my_log)
      BY <1>1, <2>2 DEF Upto
    <3> QED
      BY <3>1, <3>2 DEF HeadInv
  <2> QED
    BY <2>1, <2>2
<1> QED
  BY <1>2 DEF HeadInv, ShowsThePrefix

(* The buttons and the timer: the head never passes the end of the log, a jump *)
(* takes at most one step more than there are, and no chain is lost count of.  *)
ButtonsInv ==
  /\ index \in 0 .. Total
  /\ playing \in BOOLEAN /\ chains \in 0 .. MaxChains
  /\ left \in 0 .. Total + 1 /\ presses \in 0 .. MaxPresses

LEMMA TotalNat == log \in Opened => Total \in Nat
BY TracksTyped DEF Total, Larger

LEMMA ButtonsStep ==
  log \in Opened /\ ButtonsInv /\ [ReplayNext]_replayVars => ButtonsInv'
<1> SUFFICES ASSUME log \in Opened, ButtonsInv, [ReplayNext]_replayVars PROVE ButtonsInv'
  OBVIOUS
<1>1. /\ Total \in Nat /\ MaxChains \in Nat \ {0} /\ MaxPresses \in Nat
      /\ index \in 0 .. Total /\ playing \in BOOLEAN /\ chains \in 0 .. MaxChains
      /\ left \in 0 .. Total + 1 /\ presses \in 0 .. MaxPresses
  BY TotalNat, ReplayAssumption DEF ButtonsInv
<1>2. UNCHANGED log
  BY DEF ReplayNext, replayVars, PressStep, PressAgain, PressGo, GoOn, PressPlay, Tick
<1>3. Total' = Total
  BY <1>2 DEF Total
<1>4. index' \in 0 .. Total
  <2>1. Reset \/ Advance \/ UNCHANGED head
    BY DEF ReplayNext, replayVars, PressStep, PressAgain, PressGo, GoOn, PressPlay, Tick,
           AdvanceOrStop
  <2> QED BY <1>1, <2>1 DEF Reset, Advance, head
<1>5. playing' \in BOOLEAN
  <2>1. playing' \in {playing, TRUE, FALSE}
    BY DEF ReplayNext, replayVars, PressStep, PressAgain, PressGo, GoOn, PressPlay, Tick,
           AdvanceOrStop
  <2> QED BY <1>1, <2>1
<1>6. chains' \in 0 .. MaxChains
  BY <1>1 DEF ReplayNext, replayVars, PressStep, PressAgain, PressGo, GoOn, PressPlay, Tick
<1>7. presses' \in 0 .. MaxPresses
  BY <1>1 DEF ReplayNext, replayVars, PressStep, PressAgain, PressGo, GoOn, PressPlay, Tick, Pressed
<1>8. left' \in 0 .. Total + 1
  <2>1. CASE PressGo
    <3>1. PICK step \in -1 .. Total + 1 : left' = Larger(1, IF step <= Total THEN step ELSE Total)
      BY <2>1 DEF PressGo
    <3> QED BY <1>1, <3>1 DEF Larger
  <2>2. CASE ~PressGo
    BY <1>1, <2>2 DEF ReplayNext, replayVars, PressStep, PressAgain, GoOn, PressPlay, Tick
  <2> QED BY <2>1, <2>2
<1> QED BY <1>3, <1>4, <1>5, <1>6, <1>7, <1>8 DEF ButtonsInv

LEMMA ReplayTypes == HeadInv /\ ButtonsInv => ReplayTypeOK
<1> SUFFICES ASSUME HeadInv, ButtonsInv PROVE ReplayTypeOK
  OBVIOUS
<1>1. /\ log \in Opened /\ log.my_log \in Seq(Cells) /\ log.history \in Seq(SUBSET Cells)
      /\ Len(log.my_log) \in Nat /\ Len(log.history) \in Nat
  BY TracksTyped DEF HeadInv
<1>2. /\ Upto(log.my_log) \in 0 .. Len(log.my_log)
      /\ Upto(log.history) \in 0 .. Len(log.history)
  BY <1>1 DEF HeadInv, Upto
<1>3. visited \subseteq Cells
  <2>1. \A i \in 1 .. Upto(log.my_log) : log.my_log[i] \in Cells
    BY <1>1, <1>2
  <2> QED BY <2>1 DEF HeadInv
<1>4. barriers \subseteq Cells
  <2>1. \A i \in 1 .. Upto(log.history) : log.history[i] \in SUBSET Cells
    BY <1>1, <1>2
  <2> QED BY <2>1 DEF HeadInv
<1> QED BY <1>2, <1>3, <1>4 DEF HeadInv, ButtonsInv, ReplayTypeOK

-----------------------------------------------------------------------------
Inv == LiveInv /\ HeadInv /\ ButtonsInv

LEMMA InvHolds == Spec => []Inv
<1>1. Init => Inv
  <2> SUFFICES ASSUME Init PROVE Inv
    OBVIOUS
  <2>1. LiveInv
    BY LiveInitInv DEF Init
  <2>2. log \in Opened /\ index = 0 /\ visited = {} /\ barriers = {} /\ folded = 0
    BY DEF Init, ReplayInit
  <2>3. Len(log.my_log) \in Nat /\ Len(log.history) \in Nat
    BY <2>2, TracksTyped
  <2>4. Upto(log.my_log) = 0 /\ Upto(log.history) = 0
    BY <2>2, <2>3 DEF Upto
  <2>5. HeadInv
    BY <2>2, <2>4 DEF HeadInv
  <2>6. ButtonsInv
    <3>1. /\ index = 0 /\ playing = FALSE /\ chains = 0 /\ left = 0 /\ presses = 0
          /\ Total \in Nat
      BY <2>2, TotalNat DEF Init, ReplayInit
    <3>2. 0 \in 0 .. Total /\ 0 \in 0 .. Total + 1 /\ 0 \in 0 .. MaxChains /\ 0 \in 0 .. MaxPresses
      BY <3>1, ReplayAssumption
    <3> QED BY <3>1, <3>2 DEF ButtonsInv
  <2> QED
    BY <2>1, <2>5, <2>6 DEF Inv
<1>2. Inv /\ [Next]_vars => Inv'
  <2>1. [Next]_vars => [LiveNext]_liveVars /\ [ReplayNext]_replayVars
    BY DEF Next, vars
  <2> QED
    BY <2>1, LiveStep, ReplayStep, ButtonsStep DEF Inv, HeadInv
<1> QED
  BY <1>1, <1>2, PTL DEF Spec

(* Types of both windows: a pass that ends leaves nothing of itself behind in  *)
(* the flags, and the play head stays within the log.                          *)
THEOREM ConsoleTypes == Spec => []TypeOK
<1>1. Inv => TypeOK
  BY ReplayTypes DEF Inv, LiveInv, TypeOK
<1> QED
  BY <1>1, InvHolds, PTL

(* Never two workers own the agent, however starts, restarts, rebuilds, quits  *)
(* and failures fall (gui/player.py).                                          *)
THEOREM NoRuntimesRace == Spec => []OneRuntime
<1>1. Inv => OneRuntime
  BY DEF Inv, LiveInv
<1> QED
  BY <1>1, InvHolds, PTL

(* The result on disk is never ahead of the files it refers to, wherever a     *)
(* pass fails or is killed (report/emit.py).                                   *)
THEOREM ResultNeverAhead == Spec => []ResultBacked
<1>1. Inv => ResultBacked
  <2> SUFFICES ASSUME LiveInv PROVE ResultBacked
    BY DEF Inv
  <2>1. \A f \in 1 .. ResultAt - 1 : f \in Files /\ ResultAt \in Files /\ f < ResultAt
    BY FilesNat
  <2> QED
    BY <2>1 DEF LiveInv, Falling, Complete, ResultBacked
<1> QED
  BY <1>1, InvHolds, PTL

(* The replay viewer shows the first steps of its log and nothing else,        *)
(* however the head came where it is (gui/replay.py).                          *)
THEOREM ReplayIsFaithful == Spec => []ShowsThePrefix
<1>1. Inv => ShowsThePrefix
  BY HeadShows DEF Inv
<1> QED
  BY <1>1, InvHolds, PTL

=============================================================================
