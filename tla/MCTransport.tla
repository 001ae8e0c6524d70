---------------------------- MODULE MCTransport ----------------------------
(* Transport with one thread of each kind and up to three sessions.        *)
EXTENDS Transport

(* Unlimited, none, and a few reconnection attempts. *)
MCRetries == {-1, 0, 2}
=============================================================================
