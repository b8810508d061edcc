---------------------------- MODULE MCGeneration ----------------------------
(* Instances of Generation for TLC. *)
EXTENDS Generation, TLC

CONSTANTS chat1, chat2, contexts, maintenance, stream, author, visitor, e1, t1, w1, w2, api

MCHome == [k \in {chat1, chat2, contexts, maintenance, stream, author, visitor} |->
             CASE k \in {stream, visitor} -> api
               [] k = chat2 -> w2
               [] OTHER -> w1]

\* questions: two of them and a worker that may die; workers: a second worker;
\* worker: the loops of one process share its pool; contexts: a meeting that changes.
MCScene == {"questions", "workers", "worker", "contexts"}
MCCast == [questions |-> {chat1, 1, 2, e1, w1},
           workers |-> {chat1, chat2, 1},
           worker |-> {contexts, maintenance, author, stream},
           contexts |-> {contexts, maintenance, visitor, 3}]
=============================================================================
