------------------------------ MODULE MCSeries ------------------------------
(* The courses a series is checked on. *)
EXTENDS Series

(* Restarts of either side and quits, as the user and the Police opt in.       *)
Restarts ==
  [buttons |-> {"restart", "enable"}, signals |-> Signals, signalled |-> 2, resent |-> 0]

(* A stop against a restart of the Police.                                     *)
StopAndRestart ==
  [buttons |-> {"stop", "enable"}, signals |-> {"enable", "restart"}, signalled |-> 2, resent |-> 0]

(* Messages that arrive twice: one as the user stops and restarts, and two     *)
(* while stops and a quit cut games short.                                     *)
RepeatAndRestart ==
  [buttons |-> {"stop", "restart"}, signals |-> {}, signalled |-> 0, resent |-> 1]
RepeatsAndQuit ==
  [buttons |-> {"stop"}, signals |-> {"quit"}, signalled |-> 1, resent |-> 2]

AllCourses == {Restarts, StopAndRestart, RepeatAndRestart, RepeatsAndQuit}

(* One button and nothing else.                                                *)
Only(button) == [buttons |-> {button}, signals |-> {}, signalled |-> 0, resent |-> 0]
RestartOnly == {Only("restart")}
StopOnly == {Only("stop")}
=============================================================================
