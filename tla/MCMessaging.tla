----------------------------- MODULE MCMessaging -----------------------------
(* Instances of Messaging for TLC.                                         *)
EXTENDS Messaging

\* Two competing listeners, serial and concurrent, and a dead-letter listener.
MCListeners == {"serial", "pool", "dead"}
MCDest == [serial |-> "orders", pool |-> "orders", dead |-> "dlq"]
MCOpts ==
    [serial |-> [buffer_size |-> 1, concurrency |-> Serial,
                 max_delivery_attempts |-> 2, dead_letter |-> "dlq"],
     pool   |-> [buffer_size |-> 2, concurrency |-> 2,
                 max_delivery_attempts |-> 2, dead_letter |-> NoDeadLetter],
     dead   |-> [buffer_size |-> 1, concurrency |-> 1,
                 max_delivery_attempts |-> 2, dead_letter |-> NoDeadLetter]]
MCHash == [k |-> 1]

\* One producer sends all messages.
OneProducer == [m \in Messages |-> "p"]
Unkeyed == [m \in Messages |-> NoKey]
FirstKeyed == [m \in Messages |-> IF m = 1 THEN "k" ELSE NoKey]
AllKeyed == [m \in Messages |-> "k"]

\* The bound on deliveries is claimed for destinations like these.
ASSUME MCUniform == UniformTarget
=============================================================================
