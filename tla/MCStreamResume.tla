--------------------------- MODULE MCStreamResume ---------------------------
(***************************************************************************)
(* Small instances of StreamResume.                                        *)
(***************************************************************************)
EXTENDS StreamResume, TLC

CONSTANTS h1, h2, h3, h4, s1, a1, a2

Half(u, k) == [id |-> s1, uri |-> u, kind |-> k]

\* Two agents resume one stream; one of them comes back a second time, to
\* migrate.
FourHalves ==
    h1 :> {Half(a1, "resume")} @@ h2 :> {Half(a2, "resume")}
        @@ h3 :> {Half(a1, "migrate")} @@ h4 :> {Half(a2, "resume")}
=============================================================================
