--------------------------- MODULE MCHandleCache ---------------------------
(***************************************************************************)
(* Model values for HandleCache: direct, extra, recovering, model-level    *)
(* callers and closers.                                                    *)
(***************************************************************************)
EXTENDS HandleCache
CONSTANTS d1, e1, r1, r2, m1, c1

\* Those who go through handle(); or everybody who shares one cache key.
HandleOrShared == {{r1, r2, m1}, {d1, e1, r1, c1}}
=============================================================================
