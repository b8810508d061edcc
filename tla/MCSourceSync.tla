----------------------------- MODULE MCSourceSync -----------------------------
(***************************************************************************)
(* Instances of SourceSync for TLC.                                        *)
(***************************************************************************)
EXTENDS SourceSync, TLC

CONSTANTS inbox, mail, post, mts, w1, w2, c1

\* Two mailboxes whose labels differ or are equal, of which the second
\* is renamed; the labels of the others stay.
MCLabel == (inbox :> {0}) @@ (mail :> {1}) @@ (post :> {0, 1}) @@ (mts :> {0})

\* One mailbox with two letters and two overlapping workers; two mailboxes and the
\* workers; MTS Link, a worker and a request that tests the connection.
MCInstallation == {{inbox, w1, w2}, {mail, post, w1, w2}, {mts, w1, c1}}
MCMaxLetter == (inbox :> 2) @@ (mail :> 0) @@ (post :> 0) @@ (mts :> 1)
MCOp == (inbox :> {"delete", "configure", "disable", "renumber"})
        @@ (mail :> {"configure"}) @@ (post :> {"configure"})
        @@ (mts :> {"delete", "configure", "disable", "login", "expire"})
MCMaxRenumber == (inbox :> 1) @@ (mail :> 0) @@ (post :> 0) @@ (mts :> 0)

\* Servers whose mailboxes never share a UIDVALIDITY, and servers that do.
MCApart == [e \in Endpoint |-> 2 * e - 1]
MCAlike == [e \in Endpoint |-> 1]

\* A mailbox and a worker; MTS Link and a worker.
MCMailOnly == {{inbox, w1}}
MCMtsOnly == {{mts, w1}}
MCConfigured == [s \in Source |-> {"configure"}]
MCExpiring == [s \in Source |-> {"expire"}]
MCTwo == (inbox :> 2) @@ (mail :> 2) @@ (post :> 2) @@ (mts :> 2)

MCSymmetry == Permutations({w1, w2})
=============================================================================
