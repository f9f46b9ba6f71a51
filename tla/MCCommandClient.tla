--------------------------- MODULE MCCommandClient ---------------------------
(***************************************************************************)
(* Three calls of three processes, on a handful of contracts.              *)
(***************************************************************************)
EXTENDS CommandClient, TLC

CONSTANTS settle, discharge, seed, batch, obligation, funding, cash, new

\* The console settles a batch over one obligation, another process clears the
\* book (clear_book's Discharge, without a closure), and a third seeds an
\* obligation with the same reference for another amount.
CallConsumes ==
  settle :> {batch, obligation, funding} @@ discharge :> {obligation} @@ seed :> {}
CallCreates == settle :> {cash} @@ discharge :> {} @@ seed :> {new}
CallReconciler == settle :> "gone" @@ discharge :> "none" @@ seed :> "made"
CallWatched == settle :> {batch, obligation} @@ discharge :> {} @@ seed :> {new}
CallClashing == settle :> {} @@ discharge :> {} @@ seed :> {obligation}
=============================================================================
