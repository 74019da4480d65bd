---------------------------- MODULE NetworkProofs ----------------------------
(***************************************************************************)
(* Proofs about the network settings, for every set of texts, every        *)
(* secrets.h and every set of forms.                                       *)
(***************************************************************************)
EXTENDS Network, TLAPS

\* The step at which a form stores a key.
Place == [k \in Keys |-> CASE k = "ssid" -> 1 [] k = "wpass" -> 2 [] k = "host" -> 3
                           [] k = "user" -> 4 [] k = "mpass" -> 5]

LEMMA Places ==
  /\ \A k \in Keys : Place[k] \in 1 .. 5
  /\ \A i \in 1 .. 5 : Order[i] \in Keys
  /\ \A i \in 1 .. 5, k \in Keys : k = Order[i] <=> Place[k] = i
<1>1. /\ Place["ssid"] = 1 /\ Place["wpass"] = 2 /\ Place["host"] = 3
      /\ Place["user"] = 4 /\ Place["mpass"] = 5
  BY DEF Place, Keys, WifiKeys, MqttKeys
<1>2. /\ Order[1] = "ssid" /\ Order[2] = "wpass" /\ Order[3] = "host"
      /\ Order[4] = "user" /\ Order[5] = "mpass"
  BY DEF Order
<1> QED
  BY <1>1, <1>2 DEF Keys, WifiKeys, MqttKeys

\* What netcfg_get makes of the keys n.
EffectiveOf(n) ==
  [k \in Keys |-> IF n[k] # "" THEN n[k]
                  ELSE IF n["ssid"] # "" THEN "" ELSE Secrets[k]]

LEMMA EffectiveIs == Effective = EffectiveOf(nvs)
BY DEF Effective, EffectiveOf, Provisioned

LEMMA EffectiveType ==
  ASSUME NEW n \in [Keys -> Values]
  PROVE  EffectiveOf(n) \in [Keys -> Values]
BY NetworkConstants DEF EffectiveOf, Values

\* What a form puts into the keys it names, and that it never empties the SSID.
LEMMA PutsType ==
  ASSUME NEW form \in Forms
  PROVE  /\ PortalPuts(form) \in [Keys -> Values \cup {Leave}]
         /\ NetPuts(form) \in [Keys -> Values \cup {Leave}]
         /\ NetPuts(form)["ssid"] # ""
         /\ form["ssid"] # "" => PortalPuts(form)["ssid"] # ""
<1>1. form \in [Keys -> Values] /\ "ssid" \in Keys
  BY NetworkConstants DEF Keys, WifiKeys
<1>2. "ssid" # "user" /\ "ssid" \notin MqttKeys /\ Leave # ""
  BY DEF MqttKeys, Leave
<1> QED
  BY <1>1, <1>2 DEF PortalPuts, NetPuts

-----------------------------------------------------------------------------

FormStates == [at : 0 .. 6, puts : [Keys -> Values \cup {Leave}], ok : BOOLEAN]

LEMMA Blanks ==
  /\ "" \in Values
  /\ Nothing \in [Keys -> Values]
  /\ NoForm \in FormStates
<1>1. "" \in Values
  BY DEF Values
<1>2. Nothing \in [Keys -> Values]
  BY <1>1 DEF Nothing
<1>3. [k \in Keys |-> Leave] \in [Keys -> Values \cup {Leave}]
  OBVIOUS
<1>4. NoForm \in FormStates
  BY <1>3 DEF NoForm, FormStates
<1> QED
  BY <1>1, <1>2, <1>4

\* The type is inductive by itself.
LEMMA TypeInit == Init => TypeOK
BY NetworkConstants, Blanks DEF Init, TypeOK, FormStates

LEMMA TypeDown ==
  ASSUME TypeOK, Down
  PROVE  /\ mode' \in {"off", "clock", "portal"}
         /\ conf' \in [Keys -> Values]
         /\ web' \in FormStates
         /\ reset' \in {"no", "erased", "flagged"}
BY Blanks DEF Down, FormStates

LEMMA TypeStart ==
  ASSUME TypeOK, NEW puts \in [Keys -> Values \cup {Leave}], Start(puts)
  PROVE  /\ web' \in FormStates
         /\ asked' \in [Keys -> Values]
         /\ borrowed' \in BOOLEAN
<1>1. asked' = [k \in Keys |-> IF puts[k] = Leave THEN asked[k] ELSE puts[k]]
  BY DEF Start, Ask
<1>2. asked' \in [Keys -> Values]
  BY <1>1 DEF TypeOK
<1>3. borrowed' \in BOOLEAN
  BY DEF Start, Ask, TypeOK
<1> QED
  BY <1>2, <1>3 DEF Start, FormStates

LEMMA TypeStep == TypeOK /\ [Next]_vars => TypeOK'
<1> SUFFICES ASSUME TypeOK, [Next]_vars PROVE TypeOK'
  OBVIOUS
<1>0. Effective \in [Keys -> Values]
  BY EffectiveIs, EffectiveType DEF TypeOK
<1>1. CASE PowerLoss
  BY <1>1, TypeDown DEF PowerLoss, TypeOK, FormStates
<1>2. ASSUME NEW held \in BOOLEAN, NEW opened \in BOOLEAN, NEW cleared \in BOOLEAN,
             Boot(held, opened, cleared)
      PROVE  TypeOK'
  BY <1>2, <1>0, Blanks DEF Boot, OpenPortal, JoinNetwork, TypeOK, FormStates
<1>3. ASSUME NEW stored \in BOOLEAN, RequestPortal(stored)
      PROVE  TypeOK'
  BY <1>3, TypeDown DEF RequestPortal, TypeOK, FormStates
<1>4. ASSUME NEW stored \in BOOLEAN, Flag(stored)
      PROVE  TypeOK'
  BY <1>4 DEF Flag, TypeOK, FormStates
<1>5. ASSUME NEW form \in Forms, PortalSave(form)
      PROVE  TypeOK'
  BY <1>5, PutsType, TypeStart DEF PortalSave, TypeOK, FormStates
<1>6. ASSUME NEW form \in Forms, NetSave(form)
      PROVE  TypeOK'
  BY <1>6, PutsType, TypeStart DEF NetSave, TypeOK, FormStates
<1>7. CASE PutKey
  <2> DEFINE k == Order[web.at]
  <2>1. web.at \in 1 .. 5 /\ k \in Keys
    BY <1>7, Places DEF PutKey
  <2>2. web.at + 1 \in 0 .. 6 /\ GroupEnd \in 0 .. 6
    BY <2>1 DEF GroupEnd
  <2>3. web.puts[k] \in Values \cup {Leave}
    BY <2>1 DEF TypeOK
  <2>4. web' \in FormStates
    BY <1>7, <2>2 DEF PutKey, TypeOK, FormStates
  <2>5. nvs' \in [Keys -> Values]
    BY <1>7, <2>1, <2>3 DEF PutKey, TypeOK, FormStates
  <2> QED
    BY <1>7, <2>4, <2>5 DEF PutKey, TypeOK, FormStates
<1>8. CASE NetSaved
  BY <1>8, <1>0, Blanks DEF NetSaved, UseMqtt, Mend, Mended, TypeOK, FormStates
<1>9. CASE PortalSaved
  BY <1>9, TypeDown DEF PortalSaved, Mend, Mended, TypeOK, FormStates
<1>10. CASE MqttTest
  BY <1>10, <1>0 DEF MqttTest, UseMqtt, TypeOK, FormStates
<1>11. CASE Erase
  <2> DEFINE at == IF web.at \in {2, 4, 5} THEN GroupEnd ELSE web.at
  <2>1. web' = [[web EXCEPT !.at = at] EXCEPT !.ok = ~Storing]
    BY <1>11 DEF Erase
  <2>2. at \in 0 .. 6
    BY DEF GroupEnd, TypeOK, FormStates
  <2>5. (~Storing) \in BOOLEAN
    BY DEF Storing
  <2>6. web' \in FormStates
    <3> HIDE DEF at
    <3> QED
      BY <2>1, <2>2, <2>5 DEF TypeOK, FormStates
  <2>3. asked' \in [Keys -> Values] /\ nvs' \in [Keys -> Values]
    BY <1>11, Blanks, NetworkConstants DEF Erase
  <2>4. whole' \in BOOLEAN
    BY <1>11 DEF Erase
  <2> QED
    BY <1>11, <2>6, <2>3, <2>4 DEF Erase, TypeOK, FormStates
<1>12. CASE Restart
  BY <1>12, TypeDown DEF Restart, TypeOK, FormStates
<1>13. CASE UNCHANGED vars
  BY <1>13 DEF vars, TypeOK, FormStates
<1> QED
  BY <1>1, <1>2, <1>3, <1>4, <1>5, <1>6, <1>7, <1>8, <1>9, <1>10, <1>11, <1>12, <1>13
  DEF Next

\* Every variable keeps its type, whatever is typed, stored or compiled in.
THEOREM TypeCorrect == Spec => []TypeOK
BY TypeInit, TypeStep, PTL DEF Spec

-----------------------------------------------------------------------------

\* The client was given what the flash says when the clock joined its network,
\* and again after every form.
LEMMA ClientStep == TypeOK /\ ClientIsCurrent /\ [Next]_vars => ClientIsCurrent'
<1> SUFFICES ASSUME TypeOK, ClientIsCurrent, [Next]_vars PROVE ClientIsCurrent'
  OBVIOUS
<1> USE DEF ClientIsCurrent, Storing
<1>1. \A k \in MqttKeys : k \in Keys
  BY DEF Keys
<1>2. (PowerLoss \/ PortalSaved \/ Restart \/ Erase) => ClientIsCurrent'
  BY DEF PowerLoss, PortalSaved, Restart, Erase, Down
<1>3. ASSUME NEW stored \in BOOLEAN, RequestPortal(stored) \/ Flag(stored)
      PROVE  ClientIsCurrent'
  BY <1>3 DEF RequestPortal, Flag, Down
<1>4. ASSUME NEW held \in BOOLEAN, NEW opened \in BOOLEAN, NEW cleared \in BOOLEAN,
             Boot(held, opened, cleared)
      PROVE  ClientIsCurrent'
  BY <1>4 DEF Boot, OpenPortal, JoinNetwork, Effective, Provisioned
<1>5. ASSUME NEW form \in Forms, PortalSave(form) \/ NetSave(form)
      PROVE  ClientIsCurrent'
  <2>1. PICK puts : Start(puts)
    BY <1>5 DEF PortalSave, NetSave
  <2>2. web'.at = 1 /\ web'.at \in Nat
    BY <2>1 DEF Start
  <2> QED
    BY <2>2
<1>6. ASSUME PutKey PROVE ClientIsCurrent'
  <2>1. web'.at \in 2 .. 6
    <3>1. web \in FormStates /\ web.at \in 1 .. 5 /\ GroupEnd \in {3, 6}
      BY <1>6 DEF PutKey, GroupEnd, TypeOK, FormStates
    <3>2. \/ web' = [web EXCEPT !.at = web.at + 1]
          \/ web' = [web EXCEPT !.at = GroupEnd, !.ok = FALSE]
      BY <1>6 DEF PutKey
    <3>3. web'.at \in {web.at + 1, GroupEnd}
      BY <3>1, <3>2 DEF FormStates
    <3> QED
      BY <3>1, <3>3
  <2> QED
    BY <2>1
<1>7. ASSUME NetSaved \/ MqttTest PROVE ClientIsCurrent'
  <2>1. UseMqtt /\ nvs' = nvs
    BY <1>7 DEF NetSaved, MqttTest
  <2>2. \A k \in MqttKeys : conf'[k] = Effective[k]
    BY <1>1, <2>1 DEF UseMqtt
  <2>3. Effective' = Effective
    BY <2>1 DEF Effective, Provisioned
  <2>4. \A k \in MqttKeys : conf'[k] = Effective'[k]
    BY <2>2, <2>3, Zenon
  <2> QED
    BY <2>4
<1>8. ASSUME UNCHANGED vars PROVE ClientIsCurrent'
  <2>1. UNCHANGED <<mode, web, reset, conf, nvs>>
    BY <1>8 DEF vars
  <2>2. Effective' = Effective
    BY <2>1 DEF Effective, Provisioned
  <2> QED
    BY <2>1, <2>2
<1> QED
  BY <1>2, <1>3, <1>4, <1>5, <1>6, <1>7, <1>8 DEF Next

\* Between forms the MQTT client of a running clock is configured with what the
\* flash says, whichever of the forms' keys could be stored.
THEOREM ClientFollowsFlash == Spec => []ClientIsCurrent
<1>1. Init => ClientIsCurrent
  BY DEF Init, ClientIsCurrent
<1> QED
  BY <1>1, ClientStep, TypeCorrect, PTL DEF Spec

-----------------------------------------------------------------------------
(* The settings are those asked for.  The invariant speaks about the keys as *)
(* the form being stored will leave them when nothing fails.                 *)

Pending(k) == Storing /\ web.at <= Place[k]

Target ==
  [k \in Keys |-> IF Pending(k) /\ web.puts[k] # Leave THEN web.puts[k] ELSE nvs[k]]

\* Nothing failed and nothing was borrowed: the form will end as asked.
OnTheWay == whole /\ ~borrowed => EffectiveOf(Target) = asked

\* A form of all keys asks for itself, and has stored the keys behind it.
CompleteForm == Storing /\ Mended =>
  asked = web.puts /\ \A k \in Keys : ~Pending(k) => nvs[k] = web.puts[k]

FormHasNetwork == Storing => web.puts["ssid"] # ""

IInv == TypeOK /\ OnTheWay /\ CompleteForm /\ FormHasNetwork

\* Between forms, and when all keys were stored, the target is the flash.
LEMMA TargetIsFlash ==
  ASSUME TypeOK, web.at \in {0, 6}
  PROVE  Target = nvs /\ \A k \in Keys : ~Pending(k)
<1>1. \A k \in Keys : ~Pending(k)
  BY Places DEF Pending, Storing
<1> QED
  BY <1>1 DEF Target, TypeOK

LEMMA AsAskedInit == Init => IInv
<1> SUFFICES ASSUME Init PROVE IInv
  OBVIOUS
<1>1. TypeOK /\ web.at = 0
  BY TypeInit DEF Init, NoForm
<1>2. Target = Nothing
  BY <1>1, TargetIsFlash DEF Init
<1>3. EffectiveOf(Nothing) = Secrets
  BY NetworkConstants DEF EffectiveOf, Nothing, Keys, WifiKeys
<1> QED
  BY <1>1, <1>2, <1>3 DEF IInv, OnTheWay, CompleteForm, FormHasNetwork, Storing, Init

\* Nothing of a form that begins has been stored.
LEMMA StartPending ==
  ASSUME NEW puts, Start(puts)
  PROVE  \A k \in Keys : Pending(k)'
<1>1. web' = [at |-> 1, puts |-> puts, ok |-> TRUE]
  BY DEF Start
<1>2. web'.at = 1 /\ web'.at \in Nat
  BY <1>1
<1>3. \A k \in Keys : 1 <= Place[k] /\ Place[k] \in Nat
  BY Places
<1> QED
  BY <1>2, <1>3 DEF Pending, Storing

\* A form that begins asks for what it will leave when nothing fails.
LEMMA StartStep ==
  ASSUME IInv, TypeOK', NEW puts \in [Keys -> Values \cup {Leave}],
         puts["ssid"] # "", Start(puts), UNCHANGED <<nvs, whole>>
  PROVE  IInv'
<1> DEFINE new == [k \in Keys |-> IF puts[k] # Leave THEN puts[k] ELSE nvs[k]]
<1>1. web' = [at |-> 1, puts |-> puts, ok |-> TRUE] /\ web.at = 0
  BY DEF Start, Storing
<1>2. \A k \in Keys : Pending(k)'
  BY StartPending
<1>3. Target' = new
  BY <1>1, <1>2 DEF Target
<1>4. asked' = [k \in Keys |-> IF puts[k] = Leave THEN asked[k] ELSE puts[k]]
  BY DEF Start, Ask
<1>5. ASSUME whole', ~borrowed' PROVE EffectiveOf(Target)' = asked'
  <2>1. whole /\ ~borrowed /\ ~Borrows(puts)
    BY <1>5 DEF Start, Ask
  <2>2. asked = EffectiveOf(nvs)
    BY <2>1, <1>1, TargetIsFlash DEF IInv, OnTheWay
  <2>3. "ssid" \in Keys
    BY DEF Keys, WifiKeys
  <2>4. ASSUME NEW k \in Keys
        PROVE  EffectiveOf(new)[k] = asked'[k]
    <3>1. EffectiveOf(new)[k] = IF new[k] # "" THEN new[k]
                                ELSE IF new["ssid"] # "" THEN "" ELSE Secrets[k]
      BY DEF EffectiveOf
    <3>2. asked[k] = IF nvs[k] # "" THEN nvs[k]
                     ELSE IF nvs["ssid"] # "" THEN "" ELSE Secrets[k]
      BY <2>2 DEF EffectiveOf
    <3>3. Effective[k] = asked[k]
      BY <2>2, EffectiveIs
    <3>4. CASE puts["ssid"] # Leave
      <4>1. new["ssid"] # ""
        BY <3>4, <2>3
      <4>2. puts[k] = Leave /\ nvs[k] = "" => asked[k] = ""
        BY <3>3, <3>4, <2>1 DEF Borrows
      <4> QED
        BY <3>1, <3>2, <4>1, <4>2, <1>4
    <3>5. CASE puts["ssid"] = Leave
      <4>1. new["ssid"] = nvs["ssid"]
        BY <3>5, <2>3
      <4>2. puts[k] = "" /\ nvs["ssid"] = "" => Secrets[k] = ""
        BY <3>5, <2>1 DEF Borrows, Provisioned
      <4> QED
        BY <3>1, <3>2, <4>1, <4>2, <1>4
    <3> QED
      BY <3>4, <3>5
  <2>5. EffectiveOf(new) = asked'
    BY <2>4, <1>4 DEF EffectiveOf
  <2> QED
    BY <2>5, <1>3 DEF EffectiveOf
<1>6. CompleteForm'
  <2>1. ASSUME Mended' PROVE asked' = web'.puts
    <3>1. \A k \in Keys : puts[k] # Leave
      BY <1>1, <2>1 DEF Mended
    <3> QED
      BY <1>1, <1>4, <3>1
  <2> QED
    BY <2>1, <1>2 DEF CompleteForm
<1>7. FormHasNetwork'
  BY <1>1 DEF FormHasNetwork
<1> QED
  BY <1>5, <1>6, <1>7 DEF IInv, OnTheWay

\* The place after the key of a place.
LEMMA NextPlace ==
  ASSUME TypeOK, web.at \in 1 .. 5
  PROVE  /\ Order[web.at] \in Keys
         /\ \A j \in Keys : web.at + 1 <= Place[j] <=>
                               web.at <= Place[j] /\ j # Order[web.at]
<1>1. Order[web.at] \in Keys
  BY Places
<1>2. ASSUME NEW j \in Keys
      PROVE  web.at + 1 <= Place[j] <=> web.at <= Place[j] /\ j # Order[web.at]
  <2>1. Place[j] \in 1 .. 5 /\ (j = Order[web.at] <=> Place[j] = web.at)
    BY Places
  <2> QED
    BY <2>1
<1> QED
  BY <1>1, <1>2

\* A key that is stored moves from what is to come to what is.
LEMMA PutStep ==
  ASSUME IInv, TypeOK', PutKey
  PROVE  IInv'
<1> DEFINE k == Order[web.at]
<1>1. web.at \in 1 .. 5 /\ k \in Keys /\ Storing /\ web \in FormStates
  BY Places DEF PutKey, IInv, TypeOK, FormStates, Storing
<1>2. asked' = asked /\ borrowed' = borrowed /\ web'.puts = web.puts
  BY <1>1 DEF PutKey, FormStates
<1>3. FormHasNetwork'
  BY <1>1, <1>2 DEF IInv, FormHasNetwork
<1> DEFINE Advance == web' = [web EXCEPT !.at = web.at + 1]
           Fail == web' = [web EXCEPT !.at = GroupEnd, !.ok = FALSE] /\ whole' = FALSE
           Skip == web.puts[k] = Leave /\ nvs' = nvs
           Store == web.puts[k] # Leave /\ nvs' = [nvs EXCEPT ![k] = web.puts[k]]
<1>4. ASSUME Advance, whole' = whole, Skip \/ Store PROVE IInv'
  <2>1. web'.at = web.at + 1 /\ web'.ok = web.ok /\ web'.at \in Nat
    BY <1>1, <1>4 DEF FormStates
  <2>2. \A j \in Keys : Pending(j)' <=> Pending(j) /\ j # k
    BY <1>1, <2>1, NextPlace DEF Pending, Storing, IInv
  <2>3. \A j \in Keys : j # k => nvs'[j] = nvs[j]
    BY <1>4, <1>1 DEF IInv, TypeOK
  <2>4. web.puts[k] # Leave => nvs'[k] = web.puts[k]
    BY <1>4, <1>1 DEF IInv, TypeOK
  <2>5. Pending(k)
    BY <1>1, Places DEF Pending
  <2>6. Target' = Target
    BY <1>2, <1>4, <2>2, <2>3, <2>4, <2>5 DEF Target
  <2>7. OnTheWay'
    BY <1>2, <1>4, <2>6 DEF IInv, OnTheWay, EffectiveOf
  <2>8. CompleteForm'
    <3>1. Mended' = Mended
      BY <1>2, <2>1 DEF Mended
    <3>2. ASSUME Mended PROVE \A j \in Keys : ~Pending(j)' => nvs'[j] = web.puts[j]
      BY <1>1, <2>2, <2>3, <2>4, <3>2 DEF IInv, CompleteForm, Mended
    <3> QED
      BY <1>1, <1>2, <3>1, <3>2 DEF IInv, CompleteForm
  <2> QED
    BY <1>3, <2>7, <2>8 DEF IInv
<1>5. CASE Fail
  <2>1. ~Mended'
    BY <1>5, <1>1 DEF Mended, FormStates
  <2> QED
    BY <1>3, <1>5, <2>1 DEF IInv, OnTheWay, CompleteForm
<1>6. (Advance /\ whole' = whole /\ (Skip \/ Store)) \/ Fail
  BY DEF PutKey
<1> HIDE DEF Advance, Fail, Skip, Store
<1> QED
  BY <1>4, <1>5, <1>6

\* A form that ends, and the power that fails it: what was outstanding makes the
\* history say so, and a form of all keys has left what it asked for.
LEMMA EndStep ==
  ASSUME IInv, TypeOK', web' = NoForm, UNCHANGED <<nvs, asked>>,
         \/ whole' = (whole /\ web.at \in {0, 6}) /\ borrowed' = borrowed
         \/ web.at = 6 /\ Mend
  PROVE  IInv'
<1>1. web'.at = 0 /\ web'.at \in Nat
  BY DEF NoForm
<1>2. Target' = nvs'
  BY <1>1, TargetIsFlash DEF IInv, TypeOK, Target, Pending, Storing
<1>3. ASSUME whole', ~borrowed' PROVE EffectiveOf(nvs) = asked
  <2>1. web.at \in {0, 6}
    BY <1>3
  <2>2. Target = nvs /\ \A k \in Keys : ~Pending(k)
    BY <2>1, TargetIsFlash DEF IInv
  <2>3. CASE whole /\ ~borrowed
    BY <2>2, <2>3 DEF IInv, OnTheWay
  <2>4. CASE web.at = 6 /\ Mended
    <3>1. Storing
      BY <2>4 DEF Storing
    <3>2. asked = web.puts /\ web.puts["ssid"] # ""
      BY <2>4, <3>1 DEF IInv, CompleteForm, FormHasNetwork
    <3>3. \A k \in Keys : nvs[k] = asked[k]
      BY <2>2, <2>4, <3>1, <3>2 DEF IInv, CompleteForm
    <3>4. "ssid" \in Keys
      BY DEF Keys, WifiKeys
    <3> QED
      BY <3>2, <3>3, <3>4 DEF EffectiveOf, IInv, TypeOK
  <2> QED
    <3>1. ASSUME web.at = 6, Mend, ~Mended PROVE whole /\ ~borrowed
      BY <1>3, <3>1, Zenon DEF Mend
    <3>2. ASSUME whole' = (whole /\ web.at \in {0, 6}), borrowed' = borrowed
          PROVE  whole /\ ~borrowed
      BY <1>3, <3>2, Zenon
    <3> QED
      BY <2>3, <2>4, <3>1, <3>2
<1> QED
  BY <1>1, <1>2, <1>3 DEF IInv, OnTheWay, CompleteForm, FormHasNetwork, Storing, EffectiveOf

LEMMA AsAskedStep == IInv /\ [Next]_vars => IInv'
<1> SUFFICES ASSUME IInv, [Next]_vars PROVE IInv'
  OBVIOUS
<1>0. TypeOK'
  BY TypeStep DEF IInv
<1>1. ASSUME UNCHANGED <<nvs, web, asked, whole, borrowed>> PROVE IInv'
  <2>1. Target' = Target /\ \A k \in Keys : Pending(k)' <=> Pending(k)
    BY <1>1 DEF Target, Pending, Storing
  <2>2. OnTheWay'
    BY <1>1, <2>1 DEF IInv, OnTheWay, EffectiveOf
  <2>3. CompleteForm' /\ FormHasNetwork'
    BY <1>1, <2>1 DEF IInv, CompleteForm, FormHasNetwork, Storing, Mended
  <2> QED
    BY <1>0, <2>2, <2>3 DEF IInv
<1>2. ASSUME NEW form \in Forms, PortalSave(form) PROVE IInv'
  BY <1>0, <1>2, PutsType, StartStep DEF PortalSave
<1>3. ASSUME NEW form \in Forms, NetSave(form) PROVE IInv'
  BY <1>0, <1>3, PutsType, StartStep DEF NetSave
<1>4. CASE PutKey
  BY <1>0, <1>4, PutStep
<1>5. CASE NetSaved
  BY <1>0, <1>5, EndStep DEF NetSaved
<1>6. CASE PortalSaved
  BY <1>0, <1>6, EndStep DEF PortalSaved, Down
<1>7. CASE PowerLoss
  BY <1>0, <1>7, EndStep DEF PowerLoss, Down
<1>8. CASE Restart
  BY <1>0, <1>8, EndStep DEF Restart, Down
<1>9. ASSUME NEW stored \in BOOLEAN, RequestPortal(stored) PROVE IInv'
  BY <1>0, <1>9, EndStep DEF RequestPortal, Down
<1>10. CASE Erase
  <2> DEFINE at == IF web.at \in {2, 4, 5} THEN GroupEnd ELSE web.at
  <2>0. /\ web \in FormStates
        /\ web' = [[web EXCEPT !.at = at] EXCEPT !.ok = ~Storing]
    BY <1>10 DEF Erase, IInv, TypeOK, FormStates
  <2>6. web'.at = at /\ web'.puts = web.puts /\ (web'.ok <=> ~Storing)
    <3> HIDE DEF at
    <3> QED
      BY <2>0 DEF FormStates
  <2>7. web.at \in 0 .. 6 /\ at \in 0 .. 6 /\ (at = 0 <=> web.at = 0)
    BY <2>0 DEF FormStates, GroupEnd
  <2>1. web'.puts = web.puts /\ (Storing => ~web'.ok) /\ (Storing' <=> Storing)
    BY <2>6, <2>7 DEF Storing
  <2>2. FormHasNetwork' /\ CompleteForm'
    BY <2>1 DEF IInv, FormHasNetwork, CompleteForm, Mended
  <2>3. ASSUME whole' PROVE Target' = Nothing
    <3>1. web.at \in {0, 6} /\ web'.at = web.at
      <4>1. web.at \in {0, 6}
        BY <1>10, <2>3, Zenon DEF Erase
      <4> QED
        BY <4>1, <2>6, <2>7
    <3>2. \A k \in Keys : ~Pending(k)'
      BY <3>1, Places DEF Pending, Storing
    <3> QED
      BY <1>10, <3>2 DEF Target, Erase, Nothing
  <2>4. EffectiveOf(Nothing) = Secrets
    BY NetworkConstants DEF EffectiveOf, Nothing, Keys, WifiKeys
  <2>5. OnTheWay'
    BY <1>10, <2>3, <2>4 DEF Erase, OnTheWay, EffectiveOf
  <2> QED
    BY <1>0, <2>2, <2>5 DEF IInv
<1>11. ASSUME NEW held \in BOOLEAN, NEW opened \in BOOLEAN, NEW cleared \in BOOLEAN,
              Boot(held, opened, cleared)
       PROVE  IInv'
  BY <1>1, <1>11 DEF Boot
<1>12. ASSUME NEW stored \in BOOLEAN, Flag(stored) PROVE IInv'
  BY <1>1, <1>12 DEF Flag
<1>13. CASE MqttTest
  BY <1>1, <1>13 DEF MqttTest
<1>14. CASE UNCHANGED vars
  BY <1>1, <1>14 DEF vars
<1> QED
  BY <1>2, <1>3, <1>4, <1>5, <1>6, <1>7, <1>8, <1>9, <1>10, <1>11, <1>12, <1>13, <1>14
  DEF Next

\* Whatever was saved or reset, the clock finds exactly the network and broker last
\* asked for, unless a form was stored in part or relied on secrets.h.
THEOREM SettingsAsAsked == Spec => []StoredAsAsked
<1>1. IInv => StoredAsAsked
  <2> SUFFICES ASSUME IInv, ~Storing, whole, ~borrowed PROVE Effective = asked
    BY DEF StoredAsAsked
  <2>1. Target = nvs
    BY TargetIsFlash DEF IInv, Storing
  <2> QED
    BY <2>1, EffectiveIs DEF IInv, OnTheWay
<1> QED
  BY <1>1, AsAskedInit, AsAskedStep, PTL DEF Spec

==============================================================================
