--------------------------- MODULE MCAsyncRequests ---------------------------
(* Small instances of AsyncRequests for TLC. *)
EXTENDS AsyncRequests, TLC

CONSTANTS r1, r2, r3

\* One request whose pump has no device and one whose pump has one, both with a
\* blocking *_sync form, and one whose result is a heap copy.
MixedKinds == r1 :> "device" @@ r2 :> "map" @@ r3 :> "scope"

\* The two setup requests of an application, and one map.
BootKinds == r1 :> "adapter" @@ r2 :> "device" @@ r3 :> "map"
=============================================================================
