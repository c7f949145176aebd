------------------------ MODULE MCNotificationRouter ------------------------
(* Instances of NotificationRouter for TLC. *)
EXTENDS NotificationRouter

Valid(c, ch) == [body |-> "valid", customer |-> c, channel |-> ch]
Unusable(c) == [body : {"undecodable", "invalid"}, customer : {c},
                channel : {DefaultChannel}]

\* Payloads that validate, payloads that do not, and values that are no JSON.
Payloads_Delivery ==
  {Valid(c, "push") : c \in Customers}
    \union UNION {Unusable(c) : c \in Customers \ Oversized}

\* Payloads that ask for a channel without an adapter, or for one PostgreSQL
\* refuses; a customer with stored preferences gets a channel that has one.
Payloads_Channels == {Valid(c, ch) : c \in Customers, ch \in OtherChannels}

MC_Caps == {<<1, 2>>, <<2, 1>>}
=============================================================================
