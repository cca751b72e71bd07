---------------------------- MODULE MCAttachments ----------------------------
(***************************************************************************)
(* Instances of Attachments for TLC: <<files, failures, requests of the    *)
(* user, deletions>>.                                                      *)
(***************************************************************************)
EXTENDS Attachments

Some == {<<2, 0, 0, 0>>, <<1, 1, 0, 0>>, <<1, 0, 2, 0>>, <<1, 0, 0, 1>>}

\* A crash and a Delete.
Restarted == {<<1, 1, 1, 0>>}
=============================================================================
