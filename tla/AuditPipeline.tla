--------------------------- MODULE AuditPipeline ---------------------------
(***************************************************************************)
(* Log and audit events from the services to the log store.  AsyncLogger   *)
(* (pkg/observability/publisher.go) takes events from a bounded channel    *)
(* and publishes them, or appends them to a spool file (spool.go) that is  *)
(* replayed every two seconds.  Audit events of a transaction are written  *)
(* to an outbox in the database, which a relay in every pod publishes      *)
(* (outbox.go).  The broker is RabbitMQ, with the queues that the logging  *)
(* service declares; its consumer (cmd/logging-service) stores the events. *)
(*                                                                         *)
(* A published event is on the wire: publisher confirms are switched on    *)
(* but nobody waits for them.                                              *)
(***************************************************************************)
EXTENDS Naturals, Sequences, SequencesExt

CONSTANTS
    Events,
    Audit,        \* events of level AUDIT
    Outboxed,     \* audit events appended to the outbox, not emitted
    Malformed,    \* events that ValidateEvent refuses
    Relays,       \* pods, each with an outbox relay
    Logger,       \* the publisher of the AsyncLogger
    BufferSize,   \* capacity of the channel
    Size,         \* line of the spool -> its bytes
    Estimate,     \* event -> the bytes that pruning takes it for: type, message and 200
    MaxSpool,     \* MaxBytes of the spool
    SpoolTarget,  \* 80% of it, what pruning aims at
    MaxAttempts,  \* maxAttempts of the relay
    MaxRetries,   \* maxRetries of the consumer
    MaxFaults,    \* bound on crashes, lost connections and failed I/O
    Torn,         \* a line of the spool that cannot be decoded
    None

ASSUME AuditAssumption ==
    /\ Audit \subseteq Events /\ Outboxed \subseteq Audit /\ Malformed \subseteq Events
    /\ Logger \notin Relays /\ Torn \notin Events /\ None \notin Events
    /\ BufferSize \in Nat \ {0} /\ MaxAttempts \in Nat \ {0} /\ MaxRetries \in Nat \ {0}
    /\ MaxSpool \in Nat /\ SpoolTarget \in 0..MaxSpool /\ MaxFaults \in Nat
    /\ Size \in [Events \cup {Torn} -> Nat] /\ Estimate \in [Events -> Nat]

Publishers == Relays \cup {Logger}

VARIABLES
    emitted,   \* events handed to Emit or committed with a transaction
    queue,     \* the channel of AsyncLogger
    spool,     \* the lines of the spool file
    partial,   \* the last line of the file has no end
    logger,    \* the goroutine run
    up,        \* publisher -> its connection is open
    signal,    \* publisher -> a token waits in reconnectSig
    wire,      \* publisher -> events sent and not yet taken by the broker
    bound,     \* the logging service has declared its queues
    ingest,    \* wallet.logging.ingest.v1, delivered and unacknowledged events included
    dlq,       \* wallet.logging.dead.v1
    consumer,  \* the consumer of the logging service
    stored,    \* the events collection
    outbox,    \* event -> its outbox entry
    relay,     \* pod -> its relay
    tries,     \* outboxed event -> attempts made to publish it
    lost,      \* pairs <<event, reason>>: a copy that is gone
    faults

loggerVars == <<queue, spool, partial, logger>>
netVars == <<up, signal, wire>>
serviceVars == <<bound, ingest, dlq, consumer, stored>>
outboxVars == <<outbox, relay, tries>>
vars == <<emitted, loggerVars, netVars, serviceVars, outboxVars, lost, faults>>

Idle == [pc |-> "idle", ev |-> None, pos |-> 0]
Resting == [pc |-> "idle", batch |-> [e \in Outboxed |-> None], cur |-> None, ok |-> FALSE]
Waiting == [pc |-> "wait", ev |-> None, tries |-> 0]

Init ==
    /\ emitted = {} /\ queue = <<>> /\ spool = <<>> /\ partial = FALSE /\ logger = Idle
    /\ up = [p \in Publishers |-> FALSE]
    /\ signal = [p \in Publishers |-> FALSE]
    /\ wire = [p \in Publishers |-> {}]
    /\ bound = FALSE /\ ingest = {} /\ dlq = {} /\ stored = {}
    /\ consumer = [Waiting EXCEPT !.pc = "down"]
    /\ outbox = [e \in Outboxed |-> [status |-> "none", attempts |-> 0]]
    /\ relay = [r \in Relays |-> Resting]
    /\ tries = [e \in Outboxed |-> 0]
    /\ lost = {} /\ faults = 0

Fail == faults < MaxFaults /\ faults' = faults + 1
Ok == UNCHANGED faults

Lines == ToSet(spool) \ {Torn}

-----------------------------------------------------------------------------
(* FileSpool.                                                              *)

Bytes(lines) == FoldLeft(LAMBDA n, x : n + Size[x], 0, lines)

(* What pruneUnderLock keeps of the lines it reads: lines that cannot be   *)
(* decoded and expired events of any level go; then, from the newest       *)
(* backwards, what is over the target and not AUDIT.                       *)
Filtered(lines, expired) ==
    LET Keep(e, kept) == IF kept.bytes + Estimate[e] > SpoolTarget /\ e \notin Audit THEN kept
                         ELSE [lines |-> <<e>> \o kept.lines, bytes |-> kept.bytes + Estimate[e]]
    IN  FoldRight(Keep, SelectSeq(lines, LAMBDA x : x # Torn /\ x \notin expired), [lines |-> <<>>, bytes |-> 0]).lines

(* The file after n of its lines, with or without a part of the next one.  *)
CutOff(lines) ==
    UNION {LET head == SubSeq(lines, 1, n) IN
           {[lines |-> head, open |-> FALSE, bad |-> 1], [lines |-> Append(head, Torn), open |-> TRUE, bad |-> 1]}
           : n \in 0..(Len(lines) - 1)}

(* The file after pruneUnderLock, whose errors Append ignores.  It may fail*)
(* and leave the file alone.  It does not look at the scanner's error, so  *)
(* reading may break off (a read error, a line beyond the scanner's        *)
(* buffer), nor at those of the encoder before it renames the new file.    *)
Prune(expired) ==
    LET kept == Filtered(spool, expired) IN
    {[lines |-> kept, open |-> FALSE, bad |-> 0], [lines |-> spool, open |-> partial, bad |-> 1]}
    \cup {[lines |-> Filtered(SubSeq(spool, 1, n), expired), open |-> FALSE, bad |-> 1] : n \in 0..(Len(spool) - 1)}
    \cup CutOff(kept)

(* Why the events go that pruning leaves out.                              *)
Gone(expired, lines) ==
    LET due == Lines \ (expired \cup ToSet(Filtered(spool, expired))) IN
    (expired \ ToSet(lines)) \X {"expired"}
    \cup (due \ ToSet(lines)) \X {"pruned"}
    \cup (Lines \ (expired \cup due \cup ToSet(lines))) \X {"unwritten"}

(* Append: it prunes a file first that has no room.  A failed write leaves *)
(* nothing, a part of the line, which the next line is then joined to, or  *)
(* all of it when only the fsync fails.                                    *)
SpoolAppend(e) ==
    LET full == Bytes(spool) + Size[e] > MaxSpool IN
    \E expired \in IF full THEN SUBSET Lines ELSE {{}} :
    \E file \in IF full THEN Prune(expired) ELSE {[lines |-> spool, open |-> partial, bad |-> 0]} :
        LET more(x) == IF file.open THEN file.lines ELSE Append(file.lines, x)
            gone == lost \cup Gone(expired, file.lines)
        IN
        /\ faults + file.bad <= MaxFaults
        /\ \/ /\ faults' \in {faults + file.bad, faults + file.bad + 1}
              /\ spool' = more(e) /\ partial' = FALSE
              /\ lost' = gone \cup (IF file.open THEN {<<e, "torn">>} ELSE {})
           \/ /\ faults' = faults + file.bad + 1
              /\ spool' = file.lines /\ partial' = file.open
              /\ lost' = gone \cup {<<e, "dropped">>}
           \/ /\ faults' = faults + file.bad + 1
              /\ spool' = more(Torn) /\ partial' = TRUE
              /\ lost' = gone \cup {<<e, "dropped">>}
        /\ faults' <= MaxFaults

-----------------------------------------------------------------------------
(* RabbitPublisher.                                                        *)

(* Publish by p, with its result ok.  An attempt on a closed connection    *)
(* asks for a new one; a failed write closes the connection.               *)
Publish(p, e, ok) ==
    \/ /\ ~up[p] /\ ~ok /\ Ok
       /\ signal' = [signal EXCEPT ![p] = TRUE]
       /\ UNCHANGED <<up, wire>>
    \/ /\ up[p] /\ ok /\ Ok
       /\ wire' = [wire EXCEPT ![p] = @ \cup {e}]
       /\ UNCHANGED <<up, signal>>
    \/ /\ up[p] /\ ~ok /\ Fail
       /\ up' = [up EXCEPT ![p] = FALSE]
       /\ signal' = [signal EXCEPT ![p] = TRUE]
       /\ wire' \in {wire, [wire EXCEPT ![p] = @ \cup {e}]}

(* connect succeeds, or the wait after a failed attempt is cut short.      *)
Connect(p) ==
    /\ ~up[p]
    /\ \/ up' = [up EXCEPT ![p] = TRUE] /\ UNCHANGED signal
       \/ signal[p] /\ signal' = [signal EXCEPT ![p] = FALSE] /\ UNCHANGED up
    /\ UNCHANGED <<emitted, loggerVars, wire, serviceVars, outboxVars, lost, faults>>

(* A token left over from the time without a connection closes the new one. *)
TearDown(p) ==
    /\ up[p] /\ signal[p]
    /\ up' = [up EXCEPT ![p] = FALSE]
    /\ signal' = [signal EXCEPT ![p] = FALSE]
    /\ UNCHANGED <<emitted, loggerVars, wire, serviceVars, outboxVars, lost, faults>>

(* The connection breaks, with some of what was on the wire.               *)
Break(p) ==
    /\ up' = [up EXCEPT ![p] = FALSE]
    /\ \E cut \in SUBSET wire[p] :
         /\ wire' = [wire EXCEPT ![p] = @ \ cut]
         /\ lost' = lost \cup (cut \X {"unconfirmed"})

ConnectionLost(p) ==
    /\ up[p] /\ Fail /\ Break(p)
    /\ UNCHANGED <<emitted, loggerVars, signal, serviceVars, outboxVars>>

(* The broker routes an event to the ingest queue, if that was declared.   *)
BrokerTakes(p, e) ==
    /\ e \in wire[p]
    /\ wire' = [wire EXCEPT ![p] = @ \ {e}]
    /\ IF bound THEN ingest' = ingest \cup {e} /\ UNCHANGED lost
                ELSE lost' = lost \cup {<<e, "unroutable">>} /\ UNCHANGED ingest
    /\ UNCHANGED <<emitted, loggerVars, up, signal, bound, dlq, consumer, stored, outboxVars, faults>>

-----------------------------------------------------------------------------
(* AsyncLogger.                                                            *)

(* Plausible error: the channel has no limit.                              *)
EmitUnbounded(e) ==
    /\ e \notin emitted \cup Outboxed
    /\ emitted' = emitted \cup {e}
    /\ queue' = Append(queue, e)
    /\ UNCHANGED <<spool, partial, logger, netVars, serviceVars, outboxVars, lost, faults>>

(* A full channel sends the event to the spool, once Replay releases it.   *)
Emit(e) ==
    /\ e \notin emitted \cup Outboxed
    /\ emitted' = emitted \cup {e}
    /\ \/ /\ Len(queue) < BufferSize
          /\ queue' = Append(queue, e) /\ UNCHANGED <<spool, partial, lost, faults>>
       \/ /\ Len(queue) = BufferSize /\ logger.pc \notin {"replay", "rewrite"}
          /\ SpoolAppend(e) /\ UNCHANGED queue
    /\ UNCHANGED <<logger, netVars, serviceVars, outboxVars>>

Take ==
    /\ logger.pc = "idle" /\ queue # <<>>
    /\ logger' = [Idle EXCEPT !.pc = "publish", !.ev = Head(queue)]
    /\ queue' = Tail(queue)
    /\ UNCHANGED <<emitted, spool, partial, netVars, serviceVars, outboxVars, lost, faults>>

PublishEvent ==
    /\ logger.pc = "publish"
    /\ \E ok \in BOOLEAN :
         /\ Publish(Logger, logger.ev, ok)
         /\ logger' = IF ok THEN Idle ELSE [logger EXCEPT !.pc = "spool"]
    /\ UNCHANGED <<emitted, queue, spool, partial, serviceVars, outboxVars, lost>>

SpoolEvent ==
    /\ logger.pc = "spool"
    /\ SpoolAppend(logger.ev)
    /\ logger' = Idle
    /\ UNCHANGED <<emitted, queue, netVars, serviceVars, outboxVars>>

(* The ticker: Replay takes the lock of the spool and reads it.            *)
StartReplay ==
    /\ logger.pc = "idle" /\ spool # <<>>
    /\ logger' = [Idle EXCEPT !.pc = "replay", !.pos = 1]
    /\ UNCHANGED <<emitted, queue, spool, partial, netVars, serviceVars, outboxVars, lost, faults>>

(* One line of scanSpoolEvents.  A line that cannot be decoded ends the    *)
(* replay with the file as it was; an event that cannot be sent ends the   *)
(* sending.                                                                *)
ReplayLine ==
    /\ logger.pc = "replay" /\ logger.pos <= Len(spool)
    /\ \/ /\ spool[logger.pos] = Torn
          /\ logger' = Idle /\ UNCHANGED <<netVars, faults>>
       \/ /\ spool[logger.pos] # Torn
          /\ \E ok \in BOOLEAN :
               /\ Publish(Logger, spool[logger.pos], ok)
               /\ logger' = IF ok THEN [logger EXCEPT !.pos = @ + 1] ELSE [logger EXCEPT !.pc = "rewrite"]
    /\ UNCHANGED <<emitted, queue, spool, partial, serviceVars, outboxVars, lost>>

(* Plausible error: the event whose publication failed is not kept.        *)
RemainingAfter(pos) == SubSeq(spool, pos + 1, Len(spool))

(* What is left to send, from the line at pos on.                          *)
Remaining(pos) == SubSeq(spool, pos, Len(spool))

(* rewriteRemaining, or the removal of a file that was sent to its end.    *)
(* The file stays as it was if that fails, or if a line of the rest cannot *)
(* be decoded.                                                             *)
ReplayEnd ==
    /\ logger.pc = "rewrite" \/ (logger.pc = "replay" /\ logger.pos > Len(spool))
    /\ logger' = Idle
    /\ \/ Ok /\ spool' = IF Torn \in ToSet(Remaining(logger.pos)) THEN spool ELSE Remaining(logger.pos)
       \/ Fail /\ UNCHANGED spool
    /\ UNCHANGED <<emitted, queue, partial, netVars, serviceVars, outboxVars, lost>>

(* The service dies: the channel and the event in hand are gone.           *)
Crash ==
    /\ Fail
    /\ queue' = <<>> /\ logger' = Idle /\ signal' = [signal EXCEPT ![Logger] = FALSE]
    /\ up' = [up EXCEPT ![Logger] = FALSE]
    /\ \E cut \in SUBSET wire[Logger] :
         /\ wire' = [wire EXCEPT ![Logger] = @ \ cut]
         /\ lost' = lost \cup (cut \X {"unconfirmed"})
                         \cup ((ToSet(queue) \cup ({logger.ev} \ {None})) \X {"crash"})
    /\ UNCHANGED <<emitted, spool, partial, serviceVars, outboxVars>>

-----------------------------------------------------------------------------
(* MongoOutbox and OutboxRelay.                                            *)

(* Append, in the transaction that commits the business change.            *)
CommitWithOutbox(e) ==
    /\ e \in Outboxed \ emitted
    /\ emitted' = emitted \cup {e}
    /\ outbox' = [outbox EXCEPT ![e].status = "pending"]
    /\ UNCHANGED <<loggerVars, netVars, serviceVars, relay, tries, lost, faults>>

(* Plausible error: an entry gets no last attempt.                         *)
PendingBeforeLast == {e \in Outboxed : outbox[e].status = "pending" /\ outbox[e].attempts + 1 < MaxAttempts}

Pending == {e \in Outboxed : outbox[e].status = "pending" /\ outbox[e].attempts < MaxAttempts}

RelayFetch(r) ==
    /\ relay[r].pc = "idle" /\ Pending # {}
    /\ relay' = [relay EXCEPT ![r].pc = "publish",
          ![r].batch = [e \in Outboxed |-> IF e \in Pending THEN outbox[e].attempts ELSE None]]
    /\ UNCHANGED <<emitted, loggerVars, netVars, serviceVars, outbox, tries, lost, faults>>

RelayPublish(r, e) ==
    /\ relay[r].pc = "publish" /\ relay[r].batch[e] # None
    /\ \E ok \in BOOLEAN :
         /\ Publish(r, e, ok)
         /\ relay' = [relay EXCEPT ![r].pc = "mark", ![r].cur = e, ![r].ok = ok]
    /\ tries' = [tries EXCEPT ![e] = @ + 1]
    /\ UNCHANGED <<emitted, loggerVars, serviceVars, outbox, lost>>

(* Plausible error: the limit is one attempt too low.                      *)
EntryOneLess(n, ok) ==
    [status |-> IF ok THEN "published" ELSE IF n + 1 >= MaxAttempts - 1 THEN "failed" ELSE "pending",
     attempts |-> n + 1]

(* The entry after an attempt, from the count n that was read.             *)
Entry(n, ok) ==
    [status |-> IF ok THEN "published" ELSE IF n + 1 >= MaxAttempts THEN "failed" ELSE "pending",
     attempts |-> n + 1]

(* The update is by id, whatever the entry says by now; its error is       *)
(* ignored.                                                                *)
RelayMark(r) ==
    LET e == relay[r].cur
        left == [relay[r].batch EXCEPT ![e] = None]
    IN
    /\ relay[r].pc = "mark"
    /\ relay' = [relay EXCEPT ![r] = IF left = Resting.batch THEN Resting
                                     ELSE [Resting EXCEPT !.pc = "publish", !.batch = left]]
    /\ \/ Ok /\ outbox' = [outbox EXCEPT ![e] = Entry(relay[r].batch[e], relay[r].ok)]
       \/ Fail /\ UNCHANGED outbox
    /\ UNCHANGED <<emitted, loggerVars, netVars, serviceVars, tries, lost>>

RelayCrash(r) ==
    /\ Fail /\ Break(r)
    /\ relay' = [relay EXCEPT ![r] = Resting]
    /\ signal' = [signal EXCEPT ![r] = FALSE]
    /\ UNCHANGED <<emitted, loggerVars, serviceVars, outbox, tries>>

-----------------------------------------------------------------------------
(* The logging service.                                                    *)

(* connect declares the exchanges and queues, then Start consumes.         *)
ConsumerConnects ==
    /\ consumer.pc = "down"
    /\ consumer' = Waiting /\ bound' = TRUE
    /\ UNCHANGED <<emitted, loggerVars, netVars, ingest, dlq, stored, outboxVars, lost, faults>>

Deliver(e) ==
    /\ consumer.pc = "wait" /\ e \in ingest
    /\ consumer' = [Waiting EXCEPT !.pc = IF e \in Malformed THEN "nack" ELSE "save", !.ev = e]
    /\ UNCHANGED <<emitted, loggerVars, netVars, bound, ingest, dlq, stored, outboxVars, lost, faults>>

(* Save ignores a duplicate key; other errors are tried again MaxRetries   *)
(* times in all.                                                           *)
Save ==
    /\ consumer.pc = "save"
    /\ \/ stored' = stored \cup {consumer.ev} /\ consumer' = [consumer EXCEPT !.pc = "ack"]
       \/ /\ UNCHANGED stored
          /\ consumer' = [consumer EXCEPT !.tries = @ + 1,
                            !.pc = IF consumer.tries + 1 >= MaxRetries THEN "nack" ELSE "save"]
    /\ UNCHANGED <<emitted, loggerVars, netVars, bound, ingest, dlq, outboxVars, lost, faults>>

Ack ==
    /\ consumer.pc = "ack"
    /\ ingest' = ingest \ {consumer.ev}
    /\ consumer' = Waiting
    /\ UNCHANGED <<emitted, loggerVars, netVars, bound, dlq, stored, outboxVars, lost, faults>>

(* The dead-letter exchange is declared "direct" and the queue bound with  *)
(* "#": a direct exchange compares that with the routing key of the event, *)
(* environment.service.level, and finds them different.                    *)
DeadLetterRoutes == [kind |-> "direct", key |-> "#"]
Routed(exchange, key) ==
    exchange.key = key \/ (exchange.kind = "topic" /\ exchange.key = "#")

Nack ==
    /\ consumer.pc = "nack"
    /\ ingest' = ingest \ {consumer.ev}
    /\ IF Routed(DeadLetterRoutes, "environment.service.level")
       THEN dlq' = dlq \cup {consumer.ev} /\ UNCHANGED lost
       ELSE lost' = lost \cup {<<consumer.ev, "rejected">>} /\ UNCHANGED dlq
    /\ consumer' = Waiting
    /\ UNCHANGED <<emitted, loggerVars, netVars, bound, stored, outboxVars, faults>>

(* The consumer or its connection dies; what it had is delivered again.    *)
ConsumerLost ==
    /\ consumer.pc # "down" /\ Fail
    /\ consumer' = [Waiting EXCEPT !.pc = "down"]
    /\ UNCHANGED <<emitted, loggerVars, netVars, bound, ingest, dlq, stored, outboxVars, lost>>

(* Retention deletes old events that are not AUDIT.                        *)
Retention ==
    \E old \in SUBSET stored :
        /\ old \ Audit # {}
        /\ stored' = stored \ (old \ Audit)
        /\ lost' = lost \cup ((old \ Audit) \X {"retention"})
        /\ UNCHANGED <<emitted, loggerVars, netVars, bound, ingest, dlq, consumer, outboxVars, faults>>

LoggerStep == Take \/ PublishEvent \/ SpoolEvent \/ ReplayEnd
ReplayStep == StartReplay \/ ReplayLine
RelayStep(r) == RelayFetch(r) \/ (\E e \in Outboxed : RelayPublish(r, e)) \/ RelayMark(r)
ConsumerStep == ConsumerConnects \/ (\E e \in Events : Deliver(e)) \/ Save \/ Ack \/ Nack

Next ==
    \/ \E e \in Events : Emit(e) \/ CommitWithOutbox(e)
    \/ LoggerStep \/ ReplayStep \/ Crash
    \/ \E p \in Publishers : Connect(p) \/ TearDown(p) \/ ConnectionLost(p)
    \/ \E p \in Publishers, e \in Events : BrokerTakes(p, e)
    \/ \E r \in Relays : RelayStep(r) \/ RelayCrash(r)
    \/ ConsumerStep \/ ConsumerLost \/ Retention

(* Goroutines run, tickers fire, the broker drains its sockets and its     *)
(* queue, which is in order: an event that is published again and again    *)
(* does not keep the others waiting.  The select of run takes an event     *)
(* from the channel between two replays.                                   *)
Fairness ==
    /\ WF_vars(LoggerStep \/ ReplayStep) /\ SF_vars(Take) /\ WF_vars(ConsumerStep)
    /\ \A e \in Events : SF_vars(Deliver(e))
    /\ \A p \in Publishers, e \in Events : WF_vars(BrokerTakes(p, e))
    /\ \A r \in Relays : WF_vars(RelayStep(r))

Spec == Init /\ [][Next]_vars /\ Fairness

-----------------------------------------------------------------------------
Reasons == {"expired", "pruned", "unwritten", "torn", "dropped", "unconfirmed", "unroutable",
            "crash", "rejected", "retention"}

(* The channel keeps its capacity, and only the end of a file is torn off. *)
TypeOK ==
    /\ emitted \subseteq Events /\ stored \subseteq Events /\ dlq \subseteq Events
    /\ ingest \subseteq Events /\ lost \subseteq Events \X Reasons
    /\ queue \in Seq(Events) /\ Len(queue) <= BufferSize
    /\ spool \in Seq(Events \cup {Torn})
    /\ partial => spool # <<>> /\ Last(spool) = Torn
    /\ logger \in [pc : {"idle", "publish", "spool", "replay", "rewrite"}, ev : Events \cup {None}, pos : 0..(Len(spool) + 1)]
    /\ up \in [Publishers -> BOOLEAN] /\ signal \in [Publishers -> BOOLEAN]
    /\ wire \in [Publishers -> SUBSET Events] /\ bound \in BOOLEAN
    /\ consumer \in [pc : {"down", "wait", "save", "ack", "nack"}, ev : Events \cup {None}, tries : 0..MaxRetries]
    /\ outbox \in [Outboxed -> [status : {"none", "pending", "published", "failed"}, attempts : 0..MaxAttempts]]
    /\ faults \in 0..MaxFaults

Sent(e) == (\E p \in Publishers : e \in wire[p]) \/ e \in ingest \cup dlq \cup stored
Kept(e) == e \in ToSet(queue) \cup {logger.ev} \cup Lines
            \/ (e \in Outboxed /\ outbox[e].status \in {"pending", "failed"})
LostFor(e) == {reason \in Reasons : <<e, reason>> \in lost}

(* No event disappears unexplained: what was emitted is in the channel,    *)
(* the spool, the outbox, on the wire, in a queue or stored, or it went in *)
(* one of the ways the code lets it go.  Without a fault those are the     *)
(* limits it states itself.  An AUDIT event never makes room for another,  *)
(* in the spool or in the store, but its age or a fault of the pruning     *)
(* does away with it like any other.                                       *)
AccountedFor ==
    \A e \in emitted :
        /\ Sent(e) \/ Kept(e) \/ LostFor(e) # {}
        /\ faults = 0 => LostFor(e) \subseteq {"expired", "pruned", "unroutable", "rejected", "retention"}
        /\ e \in Audit => LostFor(e) \cap {"pruned", "retention"} = {}

(* The outbox is honest although several relays publish the same entry     *)
(* and overwrite each other's marks: an entry that says published was sent *)
(* (and then perhaps lost on the wire or refused), and one that says       *)
(* failed was tried MaxAttempts times.                                     *)
OutboxHonest ==
    \A e \in Outboxed :
        /\ outbox[e].attempts <= tries[e]
        /\ outbox[e].status = "published" => Sent(e) \/ LostFor(e) # {}
        /\ outbox[e].status = "failed" => tries[e] >= MaxAttempts

(* Every event comes to an end, one that was emitted once the connection   *)
(* stays up: it is stored, lost for a reason that is known, left in the    *)
(* outbox as failed, or kept in a spool that a torn line stops from being  *)
(* replayed.                                                               *)
EventsSettle ==
    \A e \in Events :
        (e \in Outboxed \/ <>[]up[Logger]) =>
            (e \in emitted ~>
                \/ e \in stored \/ LostFor(e) # {}
                \/ e \in Outboxed /\ outbox[e].status = "failed"
                \/ Torn \in ToSet(spool) /\ e \in Lines)

-----------------------------------------------------------------------------
(* Claims of the documentation that the code does not keep; no run expects *)
(* them to hold (README, section 4).                                       *)

(* An invalid event can be seen in the dead-letter queue once the consumer *)
(* has refused it (docs/LOGGING_ARCHITECTURE.md).                          *)
InvalidObservable == \A e \in Malformed : "rejected" \notin LostFor(e)

(* "Maximum spool file size; oldest events are dropped when exceeded": a   *)
(* file that is beyond it holds nothing but AUDIT events and the last line.*)
SpoolWithinLimit == Bytes(spool) > MaxSpool => ToSet(Front(spool)) \subseteq Audit

(* "AUDIT events are never dropped", "Durable spool; never drop": while    *)
(* nothing fails, the spool lets go of none.                               *)
AuditNeverDropped == faults = 0 => \A e \in Audit : "expired" \notin LostFor(e)

(* "The publisher waits for a publisher confirmation": what a publisher    *)
(* takes for sent has reached the broker.                                  *)
ConfirmedWhenSent == \A e \in Events : <<e, "unconfirmed">> \notin lost
=============================================================================
