----------------------------- MODULE TimerQueue -----------------------------
(***************************************************************************)
(* The queue of the timer task of FreeRTOS.  An interrupt handler cannot   *)
(* set an event; it asks the timer task to, through this queue, which      *)
(* refuses a request when it is full.  UART_RTOS_Callback, which does so   *)
(* for all UARTs of the board, looks at the answer only to decide whether  *)
(* to switch tasks: what was refused is forgotten.                         *)
(*                                                                         *)
(* The UARTs of the radio, the inertial sensor and the debug output share  *)
(* the queue.  A module that follows one path keeps the queue as this path *)
(* sees it: the requests of its own UARTs by name, and those of the others *)
(* as Other, which may come at any time.                                   *)
(***************************************************************************)
EXTENDS Integers, Sequences, FiniteSets

CONSTANT QueueLength \* configTIMER_QUEUE_LENGTH: 10

ASSUME QueueAssumption == QueueLength \in Nat \ {0}

QueueFull(queue) == Len(queue) = QueueLength

(* xEventGroupSetBitsFromISR. *)
Requested(queue, event) ==
    IF Len(queue) < QueueLength THEN Append(queue, event) ELSE queue

(* A request of another UART than those the path is about. *)
Other == "other"

PlacesOfOthers(queue) == {i \in DOMAIN queue : queue[i] = Other}
=============================================================================
