----------------------------- MODULE MCContacts -----------------------------
(* Contacts for TLC: two parties that are interchangeable. *)
EXTENDS Contacts, TLC

CONSTANTS alice, bob

Parties == Permutations({alice, bob})

\* Two requests; one request and two deletions; both with one deletion.
TwoRequests == {<<2, 0>>}
RequestsOrDeletions == {<<2, 0>>, <<1, 2>>}
RequestsAndDeletion == {<<2, 1>>}
=============================================================================
