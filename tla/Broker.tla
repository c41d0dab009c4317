------------------------------- MODULE Broker -------------------------------
(***************************************************************************)
(* MQTT as the controllers use it (src/slowcontrol/core/mqtt.py): what any *)
(* thread publishes reaches the callbacks in the order of publication, one *)
(* message at a time, on the client's thread, and every callback of the    *)
(* topic before the next message.  The connection to the broker stays up.  *)
(***************************************************************************)
EXTENDS Integers, Sequences

CONSTANT MaxBus   \* bound on the messages under way when a thread publishes

VARIABLE bus      \* published and not yet handed to the callbacks

(* publish, from a thread of a controller or a driver.                     *)
Publish(ms) == /\ Len(bus) < MaxBus
               /\ bus' = bus \o ms

(* _on_message: the callbacks have the oldest message m, and publish ms.   *)
Arrives(topic) == /\ bus # <<>>
                  /\ Head(bus).topic = topic
Msg            == Head(bus)
Reply(ms)      == bus' = Tail(bus) \o ms
=============================================================================
