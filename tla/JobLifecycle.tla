---------------------------- MODULE JobLifecycle -----------------------------
(***************************************************************************)
(* What the control plane promises about the execution of a request,      *)
(* without fences, leases, deadlines or attempts: the request is accepted  *)
(* once; until its execution begins it may be picked up and put back any   *)
(* number of times; the execution begins at most once; it passes only out  *)
(* of that one execution; and a doubtful execution is closed, never run    *)
(* again and never called a success.                                       *)
(***************************************************************************)
CONSTANT Keys
VARIABLE phase

Phases == {"absent", "waiting", "held", "executing", "uncertain", "passed", "closed"}

Moves == {<<"absent", "waiting">>,
          <<"waiting", "held">>, <<"held", "waiting">>,
          <<"held", "executing">>, <<"executing", "passed">>,
          <<"waiting", "uncertain">>, <<"held", "uncertain">>,
          <<"executing", "uncertain">>,
          <<"waiting", "closed">>, <<"held", "closed">>,
          <<"executing", "closed">>, <<"uncertain", "closed">>}

Init == phase = [key \in Keys |-> "absent"]

\* One transaction may move several requests, each along one edge.
Next ==
    /\ phase' \in [Keys -> Phases]
    /\ \A key \in Keys :
          phase'[key] # phase[key] => <<phase[key], phase'[key]>> \in Moves

Spec == Init /\ [][Next]_phase

=============================================================================
