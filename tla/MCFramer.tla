------------------------------ MODULE MCFramer -----------------------------
(* Framer with a three-byte header and declared lengths of one to six      *)
(* bytes: below three is no message, six exceeds max_message_size.         *)
EXTENDS Framer
=============================================================================
