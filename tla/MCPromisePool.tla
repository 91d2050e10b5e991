--------------------------- MODULE MCPromisePool ---------------------------
(* Four items, up to three chains, every way of yielding, and promiseMap.  *)
EXTENDS PromisePool

AllOptions ==
    [concurrency : 0..3, throwErrors : BOOLEAN, yieldEvery : {0, 1, 2}]
        \cup {Sequential(0), Sequential(3)}

=============================================================================
