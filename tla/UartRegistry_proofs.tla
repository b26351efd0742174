------------------------- MODULE UartRegistry_proofs -------------------------
(***************************************************************************)
(* For any number of slots, handles and ports, and any number of calls of  *)
(* uart_init and uart_deinit: an interrupt of a live port finds the handle *)
(* that owns it.                                                           *)
(*                                                                         *)
(* RegistryInv alone is not inductive: between the registration and the    *)
(* end of uart_init the slot belongs to a handle that is not live yet.     *)
(***************************************************************************)
EXTENDS UartRegistry, FiniteSetTheorems, WellFoundedInduction, TLAPS

(* The handle a running call works on, and what uart_init has got so far.  *)
InCall ==
  /\ call.op # "none" => call.uart \in Handle
  /\ call.op = "init" =>
       /\ ~Live(call.uart)
       /\ call.h_uart # NULL => \A g \in Handle : huart[g] # call.h_uart
       /\ instance_id[call.uart] # NULL_UART_INST =>
            /\ instance_id[call.uart] \in used
            /\ uart_instances[instance_id[call.uart]] = call.uart

Typed ==
  /\ used \subseteq Slot
  /\ uart_instances \in [Slot -> Handle \cup {NULL}]
  /\ instance_id \in [Handle -> Slot \cup {NULL_UART_INST}]
  /\ huart \in [Handle -> Port \cup {NULL}]
  /\ call \in [op : {"none", "init", "deinit"}, uart : Handle \cup {NULL},
               h_uart : Port \cup {NULL}]

IInv == Typed /\ RegistryInv /\ InCall

(* LowestIsLeast: a set of slots that is not empty has a lowest slot.      *)
LEMMA LowestIsLeast ==
  ASSUME NEW S, S \subseteq Slot, S # {}
  PROVE  Lowest(S) \in S /\ \A t \in S : Lowest(S) <= t
<1>1. S \subseteq Nat
  BY CountAssumption DEF Slot
<1> DEFINE Less == {ss \in Nat \X Nat : ss[1] < ss[2]}
<1>2. IsWellFoundedOn(Less, Nat)
  BY NatLessThanWellFounded DEF OpToRel
<1>3. \A t, s \in Nat : t < s => <<t, s>> \in Less
  OBVIOUS
<1> HIDE DEF Less
<1>4. PICK s \in S : \A t \in S : ~(<<t, s>> \in Less)
  BY <1>1, <1>2, WFMin
<1>5. \A t \in S : s <= t
  <2> SUFFICES ASSUME NEW t \in S PROVE s <= t
    OBVIOUS
  <2>1. s \in Nat /\ t \in Nat
    BY <1>1
  <2>2. ~(t < s)
    BY <2>1, <1>3, <1>4
  <2> QED BY <2>1, <2>2
<1> QED BY <1>4, <1>5 DEF Lowest

(* InitInv: the zeroed table. *)
LEMMA InitInv == Init => IInv
<1> SUFFICES ASSUME Init PROVE IInv
  OBVIOUS
<1>1. /\ used = {} /\ uart_instances = [s \in Slot |-> NULL]
      /\ huart = [h \in Handle |-> NULL] /\ instance_id = [h \in Handle |-> 0]
      /\ call = [op |-> "none", uart |-> NULL, h_uart |-> NULL]
  BY DEF Init, NoCall
<1>2. 0 \in Slot
  BY CountAssumption DEF Slot
<1>3. Typed
  BY <1>1, <1>2 DEF Typed
<1>4. RegistryInv
  BY <1>1 DEF RegistryInv, NoHoles, Owns, OnePort, Live
<1> QED BY <1>1, <1>3, <1>4 DEF IInv, InCall

(* InitRegisterKeeps: uart_register_instance inside uart_init. *)
LEMMA InitRegisterKeeps ==
  ASSUME IInv, NEW h \in Handle, NEW p \in Port \cup {NULL}, InitRegister(h, p)
  PROVE  IInv'
<1>1. /\ call.op = "none" /\ huart[h] = NULL /\ huart' = huart
      /\ call' = [op |-> "init", uart |-> h, h_uart |-> p]
      /\ p # NULL => \A g \in Handle : huart[g] # p
  BY DEF InitRegister, Live
<1>2. CASE FreeSlots = {} /\ instance_id' = [instance_id EXCEPT ![h] = NULL_UART_INST]
           /\ UNCHANGED <<used, uart_instances>>
  <2>1. Typed'
    BY <1>1, <1>2 DEF IInv, Typed
  <2>2. NoHoles' /\ OnePort'
    BY <1>1, <1>2 DEF IInv, RegistryInv, NoHoles, OnePort, Live
  <2>3. Owns'
    BY <1>1, <1>2 DEF IInv, Typed, RegistryInv, Owns, Live
  <2>4. InCall'
    BY <1>1, <1>2 DEF IInv, Typed, InCall, Live
  <2> QED BY <2>1, <2>2, <2>3, <2>4 DEF IInv, RegistryInv
<1>3. ASSUME FreeSlots # {},
             instance_id' = [instance_id EXCEPT ![h] = Lowest(FreeSlots)],
             used' = used \cup {Lowest(FreeSlots)},
             uart_instances' = [uart_instances EXCEPT ![Lowest(FreeSlots)] = h]
      PROVE  IInv'
  <2> DEFINE s == Lowest(FreeSlots)
  <2>1. /\ s \in Slot /\ s \notin used
        /\ \A t \in Slot : t \notin used => s <= t
    BY <1>3, LowestIsLeast DEF FreeSlots
  <2> HIDE DEF s
  <2>2. /\ instance_id' = [instance_id EXCEPT ![h] = s]
        /\ used' = used \cup {s}
        /\ uart_instances' = [uart_instances EXCEPT ![s] = h]
    BY <1>3 DEF s
  <2>3. s # NULL_UART_INST /\ h # NULL
    BY <2>1, NullAssumption DEF Slot
  <2>4. Typed'
    BY <1>1, <2>1, <2>2 DEF IInv, Typed
  <2>5. \A t \in Slot : t <= s => uart_instances'[t] # NULL
    <3> SUFFICES ASSUME NEW t \in Slot, t <= s PROVE uart_instances'[t] # NULL
      OBVIOUS
    <3>1. CASE t = s
      BY <2>1, <2>2, <2>3, <3>1 DEF IInv, Typed
    <3>2. CASE t # s
      <4>1. t \in used
        BY <2>1, <3>2, CountAssumption DEF Slot
      <4>2. uart_instances[t] # NULL
        BY <4>1, CountAssumption DEF IInv, RegistryInv, NoHoles, Slot
      <4> QED BY <2>2, <3>2, <4>2 DEF IInv, Typed
    <3> QED BY <3>1, <3>2
  <2>6. NoHoles'
    <3> SUFFICES ASSUME NEW u \in Slot, u \in used' \/ uart_instances'[u] # NULL,
                        NEW t \in Slot, t <= u
                 PROVE  uart_instances'[t] # NULL
      BY DEF NoHoles
    <3>1. CASE u = s
      BY <2>5, <3>1
    <3>2. CASE u # s
      <4>1. u \in used \/ uart_instances[u] # NULL
        BY <2>2, <3>2 DEF IInv, Typed
      <4>2. uart_instances[t] # NULL
        BY <4>1 DEF IInv, RegistryInv, NoHoles
      <4> QED BY <2>2, <2>3, <4>2 DEF IInv, Typed
    <3> QED BY <3>1, <3>2
  <2>7. Owns'
    <3> SUFFICES ASSUME NEW g \in Handle, huart[g] # NULL
                 PROVE  /\ instance_id'[g] \in Slot
                        /\ uart_instances'[instance_id'[g]] = g
                        /\ instance_id'[g] \in used'
      BY <1>1 DEF Owns, Live
    <3>1. g # h
      BY <1>1
    <3>2. instance_id[g] \in Slot /\ uart_instances[instance_id[g]] = g /\ instance_id[g] \in used
      BY <1>1 DEF IInv, RegistryInv, Owns, Live
    <3>3. instance_id'[g] = instance_id[g] /\ instance_id[g] # s
      BY <2>1, <2>2, <3>1, <3>2 DEF IInv, Typed
    <3> QED BY <2>2, <3>2, <3>3 DEF IInv, Typed
  <2>8. OnePort'
    BY <1>1 DEF IInv, RegistryInv, OnePort, Live
  <2>9. InCall'
    <3>1. instance_id'[h] = s /\ uart_instances'[s] = h /\ s \in used'
      BY <2>1, <2>2 DEF IInv, Typed
    <3> QED BY <1>1, <3>1 DEF InCall, Live
  <2> QED BY <2>4, <2>6, <2>7, <2>8, <2>9 DEF IInv, RegistryInv
<1> QED BY <1>2, <1>3 DEF InitRegister, Register

(* InitEndKeeps: uart_init fails, or the handle goes live. *)
LEMMA InitEndKeeps ==
  ASSUME IInv, InitFail \/ InitFinish
  PROVE  IInv'
<1> USE DEF NoCall
<1>1. CASE InitFail
  <2>1. call.op = "init" /\ call' = NoCall /\ UNCHANGED <<used, uart_instances, instance_id, huart>>
    BY <1>1 DEF InitFail
  <2>2. Typed'
    BY <2>1 DEF IInv, Typed
  <2>3. Owns' /\ NoHoles' /\ OnePort'
    BY <2>1 DEF IInv, RegistryInv, Owns, NoHoles, OnePort, Live
  <2> QED BY <2>1, <2>2, <2>3 DEF IInv, RegistryInv, InCall
<1>2. CASE InitFinish
  <2> DEFINE h == call.uart
             p == call.h_uart
  <2>1. /\ call.op = "init" /\ call' = NoCall /\ UNCHANGED <<used, uart_instances, instance_id>>
        /\ p # NULL /\ instance_id[h] # NULL_UART_INST
        /\ huart' = [huart EXCEPT ![h] = p]
    BY <1>2 DEF InitFinish
  <2>2. h \in Handle /\ p \in Port /\ huart[h] = NULL /\ (\A g \in Handle : huart[g] # p)
        /\ instance_id[h] \in used /\ uart_instances[instance_id[h]] = h
    BY <2>1 DEF IInv, Typed, InCall, Live
  <2> HIDE DEF h, p
  <2>3. huart'[h] = p /\ \A g \in Handle : g # h => huart'[g] = huart[g]
    BY <2>1, <2>2 DEF IInv, Typed
  <2>4. Typed'
    BY <2>1, <2>2 DEF IInv, Typed
  <2>5. NoHoles'
    BY <2>1 DEF IInv, RegistryInv, NoHoles
  <2>6. Owns'
    <3> SUFFICES ASSUME NEW g \in Handle, huart'[g] # NULL
                 PROVE  /\ instance_id[g] \in Slot
                        /\ uart_instances[instance_id[g]] = g
                        /\ instance_id[g] \in used
      BY <2>1 DEF Owns, Live
    <3>1. CASE g = h
      BY <2>2, <3>1 DEF IInv, Typed
    <3>2. CASE g # h
      BY <2>1, <2>3, <3>2 DEF IInv, RegistryInv, Owns, Live
    <3> QED BY <3>1, <3>2
  <2>7. OnePort'
    BY <2>2, <2>3 DEF IInv, RegistryInv, OnePort, Live
  <2> QED BY <2>1, <2>4, <2>5, <2>6, <2>7 DEF IInv, RegistryInv, InCall
<1> QED BY <1>1, <1>2

(* DeinitKeeps: uart_deinit gives the slot back, then forgets the port. *)
LEMMA DeinitKeeps ==
  ASSUME IInv, NEW h \in Handle, DeinitUnregister(h) \/ DeinitForget
  PROVE  IInv'
<1>1. CASE DeinitUnregister(h)
  <2>1. /\ call.op = "none" /\ huart[h] # NULL
        /\ used' = used \ {instance_id[h]}
        /\ call' = [op |-> "deinit", uart |-> h, h_uart |-> NULL]
        /\ UNCHANGED <<uart_instances, instance_id, huart>>
    BY <1>1 DEF DeinitUnregister, Live
  <2>2. Typed'
    BY <2>1 DEF IInv, Typed
  <2>3. NoHoles' /\ OnePort'
    BY <2>1 DEF IInv, RegistryInv, NoHoles, OnePort, Live
  <2>4. Owns'
    BY <2>1 DEF IInv, RegistryInv, Owns, Live
  <2> QED BY <2>1, <2>2, <2>3, <2>4 DEF IInv, RegistryInv, InCall
<1>2. CASE DeinitForget
  <2>1. /\ call.op = "deinit" /\ call' = NoCall /\ call.uart \in Handle
        /\ huart' = [huart EXCEPT ![call.uart] = NULL]
        /\ UNCHANGED <<used, uart_instances, instance_id>>
    BY <1>2 DEF DeinitForget, IInv, InCall
  <2>2. Typed'
    BY <2>1 DEF IInv, Typed, NoCall
  <2>3. \A g \in Handle : huart'[g] # NULL => g # call.uart /\ huart'[g] = huart[g]
    BY <2>1 DEF IInv, Typed
  <2>4. NoHoles'
    BY <2>1 DEF IInv, RegistryInv, NoHoles
  <2>5. Owns'
    BY <2>1, <2>3 DEF IInv, RegistryInv, Owns, Live
  <2>6. OnePort'
    BY <2>3 DEF IInv, RegistryInv, OnePort, Live
  <2> QED BY <2>1, <2>2, <2>4, <2>5, <2>6 DEF IInv, RegistryInv, InCall, NoCall
<1> QED BY <1>1, <1>2

(* StepInv: every step of a call keeps the invariant. *)
LEMMA StepInv == IInv /\ [Next]_vars => IInv'
<1> SUFFICES ASSUME IInv, [Next]_vars PROVE IInv'
  OBVIOUS
<1>1. CASE UNCHANGED vars
  BY <1>1 DEF vars, IInv, Typed, RegistryInv, NoHoles, Owns, OnePort, InCall, Live
<1>2. CASE DeinitForget
  <2>1. \E h \in Handle : TRUE
    BY <1>2 DEF DeinitForget, IInv, InCall
  <2> QED BY <1>2, <2>1, DeinitKeeps
<1> QED BY <1>1, <1>2, InitRegisterKeeps, InitEndKeeps, DeinitKeeps DEF Next

(* RegistryHolds: the table has no hole below a slot in use, and the       *)
(* handles in use, their slots and their ports correspond one to one, for  *)
(* any MAX_UART_COUNT and any number of handles and ports.                 *)
THEOREM RegistryHolds == Spec => []RegistryInv
<1>1. IInv => RegistryInv
  BY DEF IInv
<1> QED BY <1>1, InitInv, StepInv, PTL DEF Spec

(* LookupIsRight: get_uart_handle, called by the interrupt of a live port  *)
(* at any point of any call, returns the handle that owns the port and     *)
(* dereferences no empty slot on the way.                                  *)
THEOREM LookupIsRight == Spec => []LookupFinds
<1>1. IInv => LookupFinds
  <2> SUFFICES ASSUME IInv, NEW h \in Handle, huart[h] # NULL
               PROVE  get_uart_handle(huart[h]) = h
    BY DEF LookupFinds, Live
  <2> DEFINE p == huart[h]
             hits == {s \in Slot : Matches(s, p) \/ uart_instances[s] = NULL}
             m == Lowest(hits)
  <2>1. instance_id[h] \in Slot /\ uart_instances[instance_id[h]] = h /\ h # NULL
    BY NullAssumption DEF IInv, RegistryInv, Owns, Live
  <2>2. instance_id[h] \in hits
    BY <2>1 DEF Matches
  <2>3. m \in hits /\ m <= instance_id[h]
    <3>1. hits \subseteq Slot /\ hits # {}
      BY <2>2
    <3> HIDE DEF hits
    <3> QED BY <2>2, <3>1, LowestIsLeast
  <2>4. uart_instances[m] # NULL
    BY <2>1, <2>3 DEF IInv, RegistryInv, NoHoles
  <2>5. uart_instances[m] \in Handle /\ huart[uart_instances[m]] = p
    BY <2>3, <2>4 DEF IInv, Typed, Matches
  <2>6. uart_instances[m] = h
    BY <2>5 DEF IInv, RegistryInv, OnePort, Live
  <2>7. hits # {}
    BY <2>2
  <2> QED BY <2>4, <2>6, <2>7 DEF get_uart_handle
<1> QED BY <1>1, InitInv, StepInv, PTL DEF Spec

-----------------------------------------------------------------------------
(* SlotsAccounted counts between calls; inside one, uart_init may have a   *)
(* slot its handle does not own yet, and uart_deinit has given one back    *)
(* whose handle is still live.                                             *)
LiveHandles == {h \in Handle : huart[h] # NULL}
Taking == IF call.op = "init" /\ instance_id[call.uart] # NULL_UART_INST THEN 1 ELSE 0
Giving == IF call.op = "deinit" THEN 1 ELSE 0

Balanced ==
  /\ leaks \in Nat
  /\ call.op = "deinit" => huart[call.uart] # NULL
  /\ Cardinality(used) + Giving = Cardinality(LiveHandles) + leaks + Taking

(* AreFinite: both sides of the balance are numbers. *)
LEMMA AreFinite ==
  ASSUME IInv
  PROVE  /\ IsFiniteSet(used) /\ Cardinality(used) \in Nat
         /\ IsFiniteSet(LiveHandles) /\ Cardinality(LiveHandles) \in Nat
<1>1. used \in SUBSET Slot /\ IsFiniteSet(Slot)
  BY CountAssumption, FS_Interval DEF IInv, Typed, Slot
<1>2. LiveHandles \in SUBSET Handle
  BY DEF LiveHandles
<1>3. IsFiniteSet(used) /\ IsFiniteSet(LiveHandles)
  BY <1>1, <1>2, HandleAssumption, FS_Subset
<1> QED BY <1>3, FS_CardinalityType

LEMMA BalanceInit == Init => Balanced
<1> SUFFICES ASSUME Init PROVE Balanced
  OBVIOUS
<1>1. used = {} /\ call.op = "none" /\ leaks = 0
  BY DEF Init, NoCall
<1>2. LiveHandles = {}
  BY DEF Init, LiveHandles
<1>3. Cardinality({}) = 0
  BY FS_EmptySet
<1> QED BY <1>1, <1>2, <1>3 DEF Balanced, Taking, Giving

LEMMA BalanceKept == IInv /\ Balanced /\ [Next]_vars => Balanced'
<1> SUFFICES ASSUME IInv, Balanced, [Next]_vars PROVE Balanced'
  OBVIOUS
<1> USE AreFinite
<1>1. ASSUME NEW h \in Handle, NEW p \in Port \cup {NULL}, InitRegister(h, p)
      PROVE  Balanced'
  <2>1. /\ call.op = "none" /\ call' = [op |-> "init", uart |-> h, h_uart |-> p]
        /\ UNCHANGED <<huart, leaks>>
    BY <1>1 DEF InitRegister
  <2>2. LiveHandles' = LiveHandles
    BY <2>1 DEF LiveHandles
  <2>3. CASE FreeSlots = {} /\ instance_id' = [instance_id EXCEPT ![h] = NULL_UART_INST]
             /\ UNCHANGED used
    BY <2>1, <2>2, <2>3 DEF IInv, Typed, Balanced, Taking, Giving
  <2>4. CASE FreeSlots # {} /\ instance_id' = [instance_id EXCEPT ![h] = Lowest(FreeSlots)]
             /\ used' = used \cup {Lowest(FreeSlots)}
    <3>1. Lowest(FreeSlots) \in Slot /\ Lowest(FreeSlots) \notin used
      BY <2>4, LowestIsLeast DEF FreeSlots
    <3>2. Lowest(FreeSlots) # NULL_UART_INST
      BY <3>1, NullAssumption DEF Slot
    <3>3. Cardinality(used') = Cardinality(used) + 1
      BY <2>4, <3>1, FS_AddElement
    <3> QED BY <2>1, <2>2, <2>4, <3>2, <3>3 DEF IInv, Typed, Balanced, Taking, Giving
  <2> QED BY <1>1, <2>3, <2>4 DEF InitRegister, Register
<1>2. CASE InitFail
  <2>1. /\ call.op = "init" /\ call' = NoCall /\ UNCHANGED <<used, instance_id, huart>>
        /\ leaks' = IF instance_id[call.uart] = NULL_UART_INST THEN leaks ELSE leaks + 1
    BY <1>2 DEF InitFail
  <2>2. LiveHandles' = LiveHandles
    BY <2>1 DEF LiveHandles
  <2> QED BY <2>1, <2>2 DEF Balanced, Taking, Giving, NoCall
<1>3. CASE InitFinish
  <2>1. /\ call.op = "init" /\ call' = NoCall /\ UNCHANGED <<used, instance_id, leaks>>
        /\ call.h_uart # NULL /\ instance_id[call.uart] # NULL_UART_INST
        /\ huart' = [huart EXCEPT ![call.uart] = call.h_uart]
    BY <1>3 DEF InitFinish
  <2>2. call.uart \in Handle /\ huart[call.uart] = NULL
    BY <2>1 DEF IInv, InCall, Live
  <2>3. LiveHandles' = LiveHandles \cup {call.uart} /\ call.uart \notin LiveHandles
    BY <2>1, <2>2 DEF LiveHandles, IInv, Typed
  <2>4. Cardinality(LiveHandles') = Cardinality(LiveHandles) + 1
    BY <2>3, FS_AddElement
  <2> QED BY <2>1, <2>4 DEF Balanced, Taking, Giving, NoCall
<1>4. ASSUME NEW h \in Handle, DeinitUnregister(h)
      PROVE  Balanced'
  <2>1. /\ call.op = "none" /\ huart[h] # NULL
        /\ used' = used \ {instance_id[h]}
        /\ call' = [op |-> "deinit", uart |-> h, h_uart |-> NULL]
        /\ UNCHANGED <<instance_id, huart, leaks>>
    BY <1>4 DEF DeinitUnregister, Live
  <2>2. instance_id[h] \in used
    BY <2>1 DEF IInv, RegistryInv, Owns, Live
  <2>3. Cardinality(used') = Cardinality(used) - 1
    BY <2>1, <2>2, FS_RemoveElement
  <2>4. LiveHandles' = LiveHandles
    BY <2>1 DEF LiveHandles
  <2> QED BY <2>1, <2>3, <2>4 DEF Balanced, Taking, Giving
<1>5. CASE DeinitForget
  <2>1. /\ call.op = "deinit" /\ call' = NoCall /\ UNCHANGED <<used, instance_id, leaks>>
        /\ huart' = [huart EXCEPT ![call.uart] = NULL]
    BY <1>5 DEF DeinitForget
  <2>2. call.uart \in LiveHandles
    BY <2>1 DEF IInv, InCall, Balanced, LiveHandles
  <2>3. LiveHandles' = LiveHandles \ {call.uart}
    BY <2>1, <2>2 DEF LiveHandles, IInv, Typed
  <2>4. Cardinality(LiveHandles') = Cardinality(LiveHandles) - 1
    BY <2>2, <2>3, FS_RemoveElement
  <2> QED BY <2>1, <2>4 DEF Balanced, Taking, Giving, NoCall
<1>6. CASE UNCHANGED vars
  <2>1. LiveHandles' = LiveHandles
    BY <1>6 DEF LiveHandles, vars
  <2> QED BY <1>6, <2>1 DEF vars, Balanced, Taking, Giving
<1> QED BY <1>1, <1>2, <1>3, <1>4, <1>5, <1>6 DEF Next

(* SlotsAreAccounted: for any table and any handles, every slot taken is a *)
(* live handle's or was lost in a uart_init without a port.                *)
THEOREM SlotsAreAccounted == Spec => []SlotsAccounted
<1>1. Balanced /\ IInv => SlotsAccounted
  <2> SUFFICES ASSUME Balanced, IInv, call.op = "none"
               PROVE  Cardinality(used) = Cardinality({h \in Handle : Live(h)}) + leaks
    BY DEF SlotsAccounted
  <2>1. {h \in Handle : Live(h)} = LiveHandles
    BY DEF LiveHandles, Live
  <2>2. Cardinality(used) = Cardinality(LiveHandles) + leaks
    BY AreFinite DEF Balanced, Taking, Giving
  <2> QED BY ONLY <2>1, <2>2, Zenon
<1> QED BY <1>1, InitInv, StepInv, BalanceInit, BalanceKept, PTL DEF Spec

(* What the types say beyond IInv: the results of uart_init, and the bound *)
(* on the calls of it without a port.                                      *)
Results ==
  /\ status \in [Handle -> {"UART_OK", "UART_INIT_FAIL"}]
  /\ leaks \in 0 .. MaxLeaks
  /\ call.op = "init" /\ call.h_uart = NULL => leaks < MaxLeaks

LEMMA ResultsInit == Init => Results
BY LeaksAssumption DEF Init, Results, NoCall

LEMMA ResultsKept == IInv /\ Results /\ [Next]_vars => Results'
<1> SUFFICES ASSUME IInv, Results, [Next]_vars PROVE Results'
  OBVIOUS
<1> USE LeaksAssumption DEF Results
<1>1. ASSUME NEW h \in Handle, NEW p \in Port \cup {NULL}, InitRegister(h, p)
      PROVE  Results'
  <2>1. UNCHANGED <<status, leaks>> /\ (p = NULL => leaks < MaxLeaks)
    BY <1>1 DEF InitRegister
  <2>2. call' = [op |-> "init", uart |-> h, h_uart |-> p]
    BY <1>1 DEF InitRegister
  <2> QED BY <2>1, <2>2
<1>2. ASSUME NEW h \in Handle, DeinitUnregister(h) PROVE Results'
  BY <1>2 DEF DeinitUnregister
<1>3. CASE InitFail
  <2>1. call.op = "init" /\ call' = NoCall
        /\ status' = [status EXCEPT ![call.uart] = "UART_INIT_FAIL"]
    BY <1>3 DEF InitFail
  <2>2. leaks' \in 0 .. MaxLeaks
    BY <1>3 DEF InitFail
  <2> QED BY <2>1, <2>2 DEF NoCall
<1>4. CASE InitFinish
  BY <1>4 DEF InitFinish, NoCall
<1>5. CASE DeinitForget
  BY <1>5 DEF DeinitForget, NoCall
<1>6. CASE UNCHANGED vars
  BY <1>6 DEF vars
<1> QED BY <1>1, <1>2, <1>3, <1>4, <1>5, <1>6 DEF Next

(* TypeInvariant: for any table, handles and ports, an instance_id is a    *)
(* slot or the failure value, and a slot leads to a handle or nowhere.     *)
THEOREM TypeInvariant == Spec => []TypeOK
<1>1. IInv /\ Results => TypeOK
  BY DEF IInv, Typed, Results, TypeOK
<1> QED BY <1>1, InitInv, StepInv, ResultsInit, ResultsKept, PTL DEF Spec

=============================================================================
