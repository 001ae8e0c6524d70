----------------------------- MODULE MCSession -----------------------------
(* Session on small instances: an initial configuration and the ones an    *)
(* application may change to.  ROSpec setting 3 exceeds the capabilities.  *)
EXTENDS Session

Base == [client |-> 0, rospec |-> 1, reader |-> 1]

MCConfigs ==
    {Base,
     [Base EXCEPT !.client = 1],
     [Base EXCEPT !.rospec = 2],
     [Base EXCEPT !.reader = 2],
     [Base EXCEPT !.rospec = 2, !.reader = 2],
     [Base EXCEPT !.rospec = 3, !.reader = 2]}

MCUnsupported == {3}
=============================================================================
