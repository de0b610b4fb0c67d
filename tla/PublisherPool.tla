---------------------------- MODULE PublisherPool ----------------------------
(***************************************************************************)
(* rabbit.PublisherPool: callers borrow an AMQP publisher from an object   *)
(* pool, publish one message with it and give it back, while Close may be  *)
(* called. The object pool (jolestar/go-commons-pool) and the dialer       *)
(* (makasim/amqpextra) are external: their steps are what the code of the  *)
(* package relies on, at the grain of the pool's own atomic operations.    *)
(***************************************************************************)
EXTENDS Naturals, FiniteSets

CONSTANTS
  Callers,     \* goroutines that publish
  Publishers,  \* names for the publishers that exist at the same time
  NoPublisher,
  MaxTotal     \* poolConfig.MaxTotal = poolConfig.MaxIdle (16 in the code)

ASSUME PoolAssumption == NoPublisher \notin Publishers /\ MaxTotal \in Nat \ {0}

VARIABLES
  pc,      \* [Callers -> where the caller is in publish]
  held,    \* [Callers -> the publisher the caller has borrowed]
  gone,    \* callers whose context is done
  all,     \* the publishers the pool counts: idle ones and lent ones
  idle,    \* the publishers the pool could lend
  open,    \* publishers created and not closed
  shut     \* ObjectPool.Close has marked the pool closed

pvars == <<pc, held, gone, all, idle, open, shut>>

PInit ==
  /\ pc = [c \in Callers |-> "idle"]
  /\ held = [c \in Callers |-> NoPublisher]
  /\ gone = {}
  /\ all = {} /\ idle = {} /\ open = {}
  /\ shut = FALSE

-----------------------------------------------------------------------------
(* publish, one step for each thing that other goroutines can see.         *)

At(c, place) == pc' = [pc EXCEPT ![c] = place]

(* A goroutine that is going to publish starts.                            *)
Arrive(c) ==
  /\ pc[c] = "idle"
  /\ At(c, "call")
  /\ gone' = gone \ {c}
  /\ UNCHANGED <<held, all, idle, open, shut>>

(* A call of Publish, PublishJSON or one of the optional variants, that    *)
(* differ in the flag on the message and in encoding it. A body that does  *)
(* not marshal is refused here, before anything was borrowed.              *)
Publish(c) ==
  /\ pc[c] = "call"
  /\ At(c, "borrow") \/ At(c, "idle")
  /\ UNCHANGED <<held, gone, all, idle, open, shut>>

ReturnsError(c) == At(c, "idle")

(* BorrowObject refuses once the pool is closed.                           *)
BorrowChecks(c) ==
  /\ pc[c] = "borrow"
  /\ IF shut THEN ReturnsError(c) ELSE At(c, "take")
  /\ UNCHANGED <<held, gone, all, idle, open, shut>>

Takes(c, p) ==
  /\ held' = [held EXCEPT ![c] = p]
  /\ At(c, "publish")

(* An idle publisher is taken if there is one,                             *)
TakeIdle(c) ==
  /\ pc[c] \in {"take", "wait"}
  /\ \E p \in idle : Takes(c, p) /\ idle' = idle \ {p}
  /\ UNCHANGED <<gone, all, open, shut>>

(* otherwise one is created if the pool is not full,                       *)
Create(c) ==
  /\ pc[c] = "take"
  /\ idle = {}
  /\ Cardinality(all) < MaxTotal
  /\ \E p \in Publishers \ (open \union all) :
       /\ Takes(c, p)
       /\ all' = all \union {p}
       /\ open' = open \union {p}
  /\ UNCHANGED <<gone, idle, shut>>

CreateFails(c) ==
  /\ pc[c] = "take"
  /\ idle = {}
  /\ Cardinality(all) < MaxTotal
  /\ ReturnsError(c)
  /\ UNCHANGED <<held, gone, all, idle, open, shut>>

(* otherwise the caller blocks until one is returned,                      *)
Blocks(c) ==
  /\ pc[c] = "take"
  /\ idle = {}
  /\ Cardinality(all) >= MaxTotal
  /\ At(c, "wait")
  /\ UNCHANGED <<held, gone, all, idle, open, shut>>

(* Mutant: the borrow is not told of the caller's context.                 *)
BorrowCtxDone_Background(c) == FALSE

BorrowCtxDone(c) == c \in gone

(* or its context is done.                                                 *)
GivesUp(c) ==
  /\ pc[c] = "wait"
  /\ BorrowCtxDone(c)
  /\ ReturnsError(c)
  /\ UNCHANGED <<held, gone, all, idle, open, shut>>

(* Mutant: a publisher that failed is not given back.                      *)
AfterPublish_OnSuccess(err) == IF err THEN "idle" ELSE "return"

(* ReturnObject is deferred: it runs on either outcome.                    *)
AfterPublish(err) == "return"

(* pub.Publish returns: the message was confirmed, or it failed.           *)
PublishReturns(c) ==
  /\ pc[c] = "publish"
  /\ \E err \in BOOLEAN : At(c, AfterPublish(err))
  /\ UNCHANGED <<held, gone, all, idle, open, shut>>

(* Mutant: the publisher is given back before it is used.                  *)
ReturnObject_BeforePublish(c) ==
  /\ pc[c] = "publish"
  /\ held[c] \notin idle
  /\ idle' = idle \union {held[c]}
  /\ UNCHANGED <<pc, held, gone, all, open, shut>>

(* ReturnObject: a closed pool, or one that does not know the object,      *)
(* makes the publisher be closed; otherwise it will be idle.               *)
ReturnObject(c) ==
  /\ pc[c] = "return"
  /\ IF shut \/ held[c] \notin all
       THEN /\ open' = open \ {held[c]}
            /\ all' = all \ {held[c]}
            /\ held' = [held EXCEPT ![c] = NoPublisher]
            /\ At(c, "idle")
       ELSE /\ At(c, "put")
            /\ UNCHANGED <<held, all, open>>
  /\ UNCHANGED <<gone, idle, shut>>

(* The publisher becomes idle; if Close came in between, the idle ones are *)
(* cleared once more.                                                      *)
PutIdle(c) ==
  /\ pc[c] = "put"
  /\ LET now == idle \union {held[c]}
         cleared == IF shut THEN now ELSE {} IN
       /\ idle' = now \ cleared
       /\ all' = all \ cleared
       /\ open' = open \ cleared
  /\ held' = [held EXCEPT ![c] = NoPublisher]
  /\ At(c, "idle")
  /\ UNCHANGED <<gone, shut>>

-----------------------------------------------------------------------------
(* Close: mark the pool closed, then close the idle publishers and         *)
(* interrupt the callers that wait for one. Publishers that are lent stay. *)

CloseBegins ==
  /\ ~shut
  /\ shut' = TRUE
  /\ UNCHANGED <<pc, held, gone, all, idle, open>>

CloseEnds ==
  /\ shut
  /\ all' = all \ idle
  /\ open' = open \ idle
  /\ idle' = {}
  /\ pc' = [c \in Callers |-> IF pc[c] = "wait" THEN "idle" ELSE pc[c]]
  /\ UNCHANGED <<held, gone, shut>>

(* The caller's context is cancelled, or its deadline passes.              *)
CtxDone(c) ==
  /\ pc[c] # "idle"
  /\ c \notin gone
  /\ gone' = gone \union {c}
  /\ UNCHANGED <<pc, held, all, idle, open, shut>>

(* The goroutine's own steps; a confirmation from the broker is not one.   *)
CallerStep(c) ==
  \/ Publish(c) \/ BorrowChecks(c)
  \/ TakeIdle(c) \/ Create(c) \/ CreateFails(c) \/ Blocks(c) \/ GivesUp(c)
  \/ ReturnObject(c) \/ PutIdle(c)

(* pub.Publish waits for the broker, which may never confirm: only the end *)
(* of the message's context makes sure that it returns.                    *)
PublishCtxDone(c) == c \in gone
==============================================================================
