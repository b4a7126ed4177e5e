--------------------------- MODULE MCHandlerLocking ---------------------------
(* Values for HandlerLocking's constants.                                    *)
EXTENDS HandlerLocking

CONSTANTS t1, t2, t3, shared, plain, own

(* Three threads share a handler, and one has a file-like handler of its     *)
(* own; two threads share one whose stream has no flush.                     *)
Apart == ({t1, t2, t3} \X {shared}) \cup {<<t1, own>>}
             \cup ({t2, t3} \X {plain})

(* The file-like handler is used by two threads.                             *)
Together == Apart \cup {<<t2, own>>}

Both == {Apart, Together}
OnlyTogether == {Together}
==============================================================================
