------------------------ MODULE UsbDescriptors_proofs ------------------------
(***************************************************************************)
(* The answers of UsbDescriptors are right for every text of up to 255     *)
(* characters, every size of packet and every order of requests.           *)
(***************************************************************************)
EXTENDS UsbDescriptors, TLAPS

(* While a string is sent, the buffer holds it and its length.             *)
Answer ==
  of \in Strings => /\ header = 2 * chr_count(of) + 2 /\ length <= header
                    /\ \A w \in 1..chr_count(of) : words[w] = of

(* What is sent of a table ends within it.                                 *)
Table ==
  /\ of = Device => length <= 18
  /\ of = Configuration => length <= 75
  /\ of = Nothing => length = 0

UsbInv == TypeOK /\ Answer /\ Table /\ HostReadsRight

(* A string has at most 31 characters in the buffer.                       *)
LEMMA CountRange ==
  ASSUME TypeOK, NEW index \in Strings
  PROVE  /\ chr_count(index) \in 0..31
         /\ chr_count(index) = IF index = 0 THEN 1 ELSE Lesser(text[index], 31)
<1>1. CASE index = 0
  BY <1>1 DEF chr_count
<1>2. CASE index # 0
  <2>1. text[index] \in Nat
    BY <1>2, UsbAssumption DEF TypeOK, Strings
  <2> QED BY <1>2, <2>1 DEF chr_count, Lesser
<1> QED BY <1>1, <1>2

(* The invariant holds before the first request.                           *)
LEMMA UsbInit == Init => UsbInv
BY DEF Init, UsbInv, TypeOK, Answer, Table, HostReadsRight, Strings, Nothing, Device, Configuration

(* Every request and every packet keeps the invariant.                     *)
LEMMA UsbStep == UsbInv /\ [Next]_vars => UsbInv'
<1> SUFFICES ASSUME UsbInv, [Next]_vars PROVE UsbInv'
  OBVIOUS
<1> USE DEF UsbInv, Strings, Nothing, Device, Configuration
<1>1. ASSUME NEW wLength \in Lengths, GetDevice(wLength) PROVE UsbInv'
  <2>1. wLength \in Nat
    BY UsbAssumption
  <2> QED BY <1>1, <2>1 DEF GetDevice, Begin, Size, Lesser, buffer, TypeOK, Answer, Table, HostReadsRight
<1>2. ASSUME NEW wLength \in Lengths, GetConfiguration(wLength) PROVE UsbInv'
  <2>1. wLength \in Nat /\ CONFIG_TOTAL_LEN = 75
    BY UsbAssumption DEF CONFIG_TOTAL_LEN, TUD_CONFIG_DESC_LEN, TUD_CDC_DESC_LEN
  <2> QED BY <1>2, <2>1 DEF GetConfiguration, Begin, Lesser, buffer, TypeOK, Answer, Table, HostReadsRight
<1>3. ASSUME NEW wLength \in Lengths, NEW index \in Strings, GetString(index, wLength) PROVE UsbInv'
  <2>1. wLength \in Nat /\ chr_count(index) \in 0..31
    BY UsbAssumption, CountRange
  <2>2. text' = text /\ chr_count(index)' = chr_count(index)
    BY <1>3 DEF GetString, chr_count
  <2>3. words' = [w \in 1..31 |-> IF w <= chr_count(index) THEN index ELSE words[w]]
    <3>1. DOMAIN words \cup 1..chr_count(index) = 1..31
      BY <2>1 DEF TypeOK
    <3> QED BY <1>3, <3>1 DEF GetString
  <2>4. of' = index /\ header' = 2 * chr_count(index) + 2 /\ pos' = 0 /\ got' = {} /\ gotHeader' = 0
    BY <1>3 DEF GetString, Begin
  <2>5. length' \in Nat /\ length' <= header'
    BY <1>3, <2>1, <2>4 DEF GetString, Begin, Lesser
  <2>6. TypeOK'
    BY <2>1, <2>2, <2>3, <2>4, <2>5 DEF TypeOK
  <2>7. Answer'
    BY <2>1, <2>2, <2>3, <2>4, <2>5 DEF Answer
  <2> QED BY <2>4, <2>6, <2>7 DEF Table, HostReadsRight
<1>4. CASE Refuse
  BY <1>4 DEF Refuse, buffer, TypeOK, Answer, Table, HostReadsRight
<1>5. CASE Packet
  <2>1. pos' \in 0..length /\ pos' <= length /\ pos' > 0
    BY <1>5, UsbAssumption DEF Packet, Lesser, TypeOK
  <2>2. UNCHANGED <<text, header, words, of, length>>
    BY <1>5 DEF Packet, buffer
  <2>3. Answer' /\ Table'
    BY <2>2 DEF Answer, Table, chr_count
  <2>4. CASE of \in Strings
    <3> DEFINE read == {words[w] : w \in {v \in DOMAIN words : pos < 2 * v + 2 /\ 2 * v < pos'}}
    <3>1. got' = got \cup read /\ gotHeader' = IF pos = 0 THEN header ELSE gotHeader
      BY <1>5, <2>4 DEF Packet
    <3>2. chr_count(of) \in 0..31 /\ chr_count(of) = IF of = 0 THEN 1 ELSE Lesser(text[of], 31)
      BY <2>4, CountRange
    <3>3. read \subseteq {of}
      <4> SUFFICES ASSUME NEW v \in 1..31, 2 * v < pos' PROVE words[v] = of
        BY DEF TypeOK
      <4>1. v <= chr_count(of)
        BY <2>1, <2>4, <3>2 DEF Answer, TypeOK
      <4> QED BY <2>4, <3>2, <4>1 DEF Answer
    <3>4. HostReadsRight'
      <4>1. got' \subseteq {of}
        BY <2>4, <3>1, <3>3 DEF HostReadsRight
      <4>2. gotHeader' = 2 + 2 * chr_count(of)
        <5>1. CASE pos = 0
          BY <2>4, <3>1, <3>2, <5>1 DEF Answer
        <5>2. CASE pos # 0
          BY <2>4, <3>1, <3>2, <5>2 DEF HostReadsRight, TypeOK
        <5> QED BY <5>1, <5>2
      <4> QED BY <2>2, <3>2, <4>1, <4>2 DEF HostReadsRight
    <3>5. TypeOK'
      BY <2>1, <2>2, <2>4, <3>1, <3>3 DEF TypeOK
    <3> QED BY <2>3, <3>4, <3>5
  <2>5. CASE of \notin Strings
    BY <1>5, <2>1, <2>2, <2>3, <2>5 DEF Packet, TypeOK, HostReadsRight
  <2> QED BY <2>4, <2>5
<1>6. CASE UNCHANGED vars
  BY <1>6 DEF vars, buffer, TypeOK, Answer, Table, HostReadsRight, chr_count
<1> QED BY <1>1, <1>2, <1>3, <1>4, <1>5, <1>6 DEF Next

(* The invariant holds in every reachable state.                           *)
THEOREM UsbInvariant == Spec => []UsbInv
BY UsbInit, UsbStep, PTL DEF Spec

(* The type invariant of UsbDescriptors.                                   *)
THEOREM UsbTypeCorrect == Spec => []TypeOK
<1>1. UsbInv => TypeOK
  BY DEF UsbInv
<1> QED BY UsbInvariant, <1>1, PTL

(* The host reads the string it asked for, whatever was in the buffer.     *)
THEOREM HostAlwaysReadsRight == Spec => []HostReadsRight
<1>1. UsbInv => HostReadsRight
  BY DEF UsbInv
<1> QED BY UsbInvariant, <1>1, PTL

(* Nothing is read or written beyond a table or the buffer.                *)
THEOREM AlwaysInside == Spec => []StaysInside
<1>1. UsbInv => StaysInside
  <2> SUFFICES ASSUME UsbInv PROVE StaysInside
    OBVIOUS
  <2> USE DEF UsbInv, Strings, Nothing, Device, Configuration, TypeOK
  <2>1. CASE of \in Strings
    <3>1. chr_count(of) \in 0..31
      BY <2>1, CountRange
    <3> QED BY <2>1, <3>1 DEF StaysInside, Answer, Size
  <2>2. CASE of \notin Strings
    BY <2>2 DEF StaysInside, Table, Size, TUD_CONFIG_DESC_LEN, TUD_CDC_DESC_LEN
  <2> QED BY <2>1, <2>2
<1> QED BY UsbInvariant, <1>1, PTL
=============================================================================
