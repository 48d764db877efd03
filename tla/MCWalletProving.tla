--------------------------- MODULE MCWalletProving --------------------------
\* The proving wallet and the presentation service for TLC.
EXTENDS WalletProving, TLC
CONSTANTS s1, s2, v1, v2, f1, f2

\* A credential that fits both fields and one that has one of them, unfit; a
\* second schema with an age bound and no public field.
ProveNeeds == s1 :> {f1, f2} @@ s2 :> {f2}
ProveClaims == v1 :> (f1 :> "fit" @@ f2 :> "fit")
            @@ v2 :> (f1 :> "unfit" @@ f2 :> "absent")
ProveVisible == s1 :> "bound" @@ s2 :> "secret"

\* One field and one credential; the second schema has no circuit.
LiveNeeds == [s \in {s1, s2} |-> {f2}]
LiveClaims == v1 :> (f2 :> "fit")
LiveVisible == [s \in {s1, s2} |-> "bound"]
=============================================================================
