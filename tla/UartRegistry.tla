---------------------------- MODULE UartRegistry ----------------------------
(***************************************************************************)
(* The table in Src/uart.c that leads an interrupt from the HAL's port to  *)
(* the uart_handle_t that owns it: a bit per slot says whether the slot is *)
(* taken, the pointers are never cleared.  The steps of uart_init and      *)
(* uart_deinit are apart because interrupts of other ports look the table  *)
(* up in between.                                                          *)
(***************************************************************************)
EXTENDS Integers, FiniteSets

CONSTANTS
  MAX_UART_COUNT,
  Handle,          \* the uart_handle_t objects of the program, zeroed at start
  Port,            \* the UART_HandleTypeDef objects of the HAL
  NULL,
  NULL_UART_INST,
  MaxLeaks         \* bound: calls of uart_init without a port

ASSUME HandleAssumption == IsFiniteSet(Handle)
ASSUME CountAssumption == MAX_UART_COUNT \in Nat \ {0}
ASSUME LeaksAssumption == MaxLeaks \in Nat
ASSUME NullAssumption ==
  /\ NULL \notin Handle /\ NULL \notin Port
  /\ NULL_UART_INST \notin 0 .. MAX_UART_COUNT - 1

Slot == 0 .. MAX_UART_COUNT - 1

VARIABLES
  used,            \* the bits set in uart_instance_id
  uart_instances,
  instance_id, huart, status,    \* fields of each handle
  call,            \* what the main program is inside of
  leaks            \* history: slots taken by calls of uart_init without a port

vars == <<used, uart_instances, instance_id, huart, status, call, leaks>>

NoCall == [op |-> "none", uart |-> NULL, h_uart |-> NULL]

Init ==
  /\ used = {}
  /\ uart_instances = [s \in Slot |-> NULL]
  /\ instance_id = [h \in Handle |-> 0]
  /\ huart = [h \in Handle |-> NULL]
  /\ status = [h \in Handle |-> "UART_OK"]
  /\ call = NoCall
  /\ leaks = 0

Live(h) == huart[h] # NULL

(* Variant: one slot too many is looked at. *)
FreeSlotsOneTooMany == (0 .. MAX_UART_COUNT) \ used

(* uart_register_instance takes the lowest free slot. *)
FreeSlots == Slot \ used

(* Variant: the table is filled from its end. *)
Highest(S) == CHOOSE s \in S : \A t \in S : t <= s

Lowest(S) == CHOOSE s \in S : \A t \in S : s <= t

Register(h) ==
  \/ /\ FreeSlots = {}
     /\ instance_id' = [instance_id EXCEPT ![h] = NULL_UART_INST]
     /\ UNCHANGED <<used, uart_instances>>
  \/ /\ FreeSlots # {}
     /\ instance_id' = [instance_id EXCEPT ![h] = Lowest(FreeSlots)]
     /\ used' = used \cup {Lowest(FreeSlots)}
     /\ uart_instances' = [uart_instances EXCEPT ![Lowest(FreeSlots)] = h]

(* uart_init of a handle that is not in use, on a port no other handle     *)
(* has, or by mistake on none: it registers before it looks at the port.   *)
InitRegister(h, p) ==
  /\ call.op = "none" /\ ~Live(h)
  /\ p = NULL => leaks < MaxLeaks
  /\ \A g \in Handle : p # NULL => huart[g] # p
  /\ Register(h)
  /\ call' = [op |-> "init", uart |-> h, h_uart |-> p]
  /\ UNCHANGED <<huart, status, leaks>>

InitFail ==
  /\ call.op = "init"
  /\ call.h_uart = NULL \/ instance_id[call.uart] = NULL_UART_INST
  /\ status' = [status EXCEPT ![call.uart] = "UART_INIT_FAIL"]
  /\ leaks' = IF instance_id[call.uart] = NULL_UART_INST THEN leaks ELSE leaks + 1
  /\ call' = NoCall
  /\ UNCHANGED <<used, uart_instances, instance_id, huart>>

InitFinish ==
  /\ call.op = "init"
  /\ call.h_uart # NULL /\ instance_id[call.uart] # NULL_UART_INST
  /\ huart' = [huart EXCEPT ![call.uart] = call.h_uart]
  /\ status' = [status EXCEPT ![call.uart] = "UART_OK"]
  /\ call' = NoCall
  /\ UNCHANGED <<used, uart_instances, instance_id, leaks>>

(* Variants: the bit is kept, or the pointer is cleared with it. *)
DeinitKeepsBit(h) ==
  /\ call.op = "none" /\ Live(h)
  /\ call' = [op |-> "deinit", uart |-> h, h_uart |-> NULL]
  /\ UNCHANGED <<used, uart_instances, instance_id, huart, status, leaks>>

DeinitClearsPointer(h) ==
  /\ call.op = "none" /\ Live(h)
  /\ used' = used \ {instance_id[h]}
  /\ uart_instances' = [uart_instances EXCEPT ![instance_id[h]] = NULL]
  /\ call' = [op |-> "deinit", uart |-> h, h_uart |-> NULL]
  /\ UNCHANGED <<instance_id, huart, status, leaks>>

(* uart_deinit of a live handle: uart_unregister_instance clears the bit   *)
(* and leaves the pointer; the port is aborted, then forgotten.            *)
DeinitUnregister(h) ==
  /\ call.op = "none" /\ Live(h)
  /\ used' = used \ {instance_id[h]}
  /\ call' = [op |-> "deinit", uart |-> h, h_uart |-> NULL]
  /\ UNCHANGED <<uart_instances, instance_id, huart, status, leaks>>

DeinitForget ==
  /\ call.op = "deinit"
  /\ huart' = [huart EXCEPT ![call.uart] = NULL]
  /\ call' = NoCall
  /\ UNCHANGED <<used, uart_instances, instance_id, status, leaks>>

Next ==
  \/ \E h \in Handle : \E p \in Port \cup {NULL} : InitRegister(h, p)
  \/ \E h \in Handle : DeinitUnregister(h)
  \/ InitFail \/ InitFinish \/ DeinitForget

Spec == Init /\ [][Next]_vars

(* get_uart_handle: the first slot whose handle has the port.  A slot that *)
(* was never filled is dereferenced all the same: Wild stands for that.    *)
Wild == "wild"

Matches(s, p) == uart_instances[s] # NULL /\ huart[uart_instances[s]] = p

get_uart_handle(p) ==
  LET hits == {s \in Slot : Matches(s, p) \/ uart_instances[s] = NULL}
  IN  IF hits = {} THEN NULL
      ELSE IF uart_instances[Lowest(hits)] = NULL THEN Wild
      ELSE uart_instances[Lowest(hits)]

-----------------------------------------------------------------------------
(* TypeOK: a handle's instance_id is a slot or the failure value; slots    *)
(* point to handles.                                                       *)
TypeOK ==
  /\ used \subseteq Slot
  /\ uart_instances \in [Slot -> Handle \cup {NULL}]
  /\ instance_id \in [Handle -> Slot \cup {NULL_UART_INST}]
  /\ huart \in [Handle -> Port \cup {NULL}]
  /\ status \in [Handle -> {"UART_OK", "UART_INIT_FAIL"}]
  /\ call \in [op : {"none", "init", "deinit"}, uart : Handle \cup {NULL},
               h_uart : Port \cup {NULL}]
  /\ leaks \in 0 .. MaxLeaks

(* Slots are filled from the lowest and pointers are never cleared: no     *)
(* hole opens below a slot in use.                                         *)
NoHoles ==
  \A s \in Slot : s \in used \/ uart_instances[s] # NULL =>
    \A t \in Slot : t <= s => uart_instances[t] # NULL

(* A live handle owns the slot its instance_id names. *)
Owns ==
  \A h \in Handle : Live(h) =>
    /\ instance_id[h] \in Slot
    /\ uart_instances[instance_id[h]] = h
    /\ (instance_id[h] \in used \/ (call.op = "deinit" /\ call.uart = h))

(* Two handles never have one port, or one slot while live. *)
OnePort == \A g, h \in Handle : Live(g) /\ huart[g] = huart[h] => g = h

(* RegistryInv: the table never has a hole below a slot in use, and the    *)
(* handles in use, their slots and their ports correspond one to one.      *)
RegistryInv == NoHoles /\ Owns /\ OnePort

(* LookupFinds: an interrupt of a port that a handle has been given finds  *)
(* that handle, at every point of every call, whatever handles came and    *)
(* went before and left stale pointers behind, and meets no empty slot on  *)
(* the way.                                                                *)
LookupFinds == \A h \in Handle : Live(h) => get_uart_handle(huart[h]) = h

(* SlotsAccounted: every slot taken is owned by a live handle or was lost  *)
(* in a uart_init without a port, so uart_deinit gives every slot back.    *)
SlotsAccounted ==
  call.op = "none" => Cardinality(used) = Cardinality({h \in Handle : Live(h)}) + leaks

=============================================================================
