--------------------------- MODULE UsbDescriptors ---------------------------
(***************************************************************************)
(* The device's answers to GET_DESCRIPTOR: the callbacks of                *)
(* usb_descriptors.c, and the control endpoint, which keeps a pointer to   *)
(* an answer and reads each packet through it when the packet is sent.     *)
(* All strings are answered from one static buffer.                        *)
(*                                                                         *)
(* A character is known by the string it belongs to and its place; the     *)
(* device stack, which calls the callbacks from usb/dev, is external.      *)
(***************************************************************************)
EXTENDS Naturals

CONSTANTS
  CFG_TUD_CDC,             (* CDC interfaces: 1                            *)
  CFG_TUD_ENDPOINT0_SIZE,  (* bytes in a packet of the control endpoint: 64 *)
  Texts,     (* the lengths a build may give to the texts of strings 1..4  *)
  Lengths    (* what a host asks for, in bytes                             *)

(* What a request may be for; Nothing is sent when one is refused.         *)
Strings == 0..4
Nothing == 5
Device == 6
Configuration == 7

TUD_CONFIG_DESC_LEN == 9
TUD_CDC_DESC_LEN == 66

(* Texts of 256 characters and more do not fit uint8_t chr_count.  The     *)
(* table of the configuration holds one CDC interface.                     *)
ASSUME UsbAssumption ==
  /\ Texts \subseteq [1..4 -> 0..255]
  /\ CFG_TUD_ENDPOINT0_SIZE \in Nat \ {0} /\ CFG_TUD_CDC = 1
  /\ Lengths \subseteq Nat \ {0}

VARIABLES
  text,      (* the lengths in this build                                  *)
  header,    (* length, in bytes, in the first word of _desc_str           *)
  words,     (* of the other 31 words, the string they belong to or Nothing *)
  of,        (* what is being sent: a string, another table or Nothing     *)
  length, pos,     (* bytes to send, and sent                              *)
  gotHeader, got   (* what the host has received of it: the length in its  *)
                   (* header, and the strings its characters belong to     *)

buffer == <<header, words>>
vars == <<text, buffer, of, length, pos, gotHeader, got>>

Lesser(a, b) == IF a < b THEN a ELSE b

(* Mutant: the length of an interface's table is counted per interface     *)
(* number, of which a CDC interface has two.                               *)
CONFIG_TOTAL_LEN_per_number == TUD_CONFIG_DESC_LEN + 2 * CFG_TUD_CDC * TUD_CDC_DESC_LEN

CONFIG_TOTAL_LEN == TUD_CONFIG_DESC_LEN + CFG_TUD_CDC * TUD_CDC_DESC_LEN

(* Bytes behind the pointers the callbacks return.                         *)
Size(d) == CASE d = Device -> 18
             [] d = Configuration -> TUD_CONFIG_DESC_LEN + TUD_CDC_DESC_LEN
             [] OTHER -> 2 * 32

Init ==
  /\ text \in Texts
  /\ header = 0 /\ words = [w \in 1..31 |-> Nothing]
  /\ of = Nothing /\ length = 0 /\ pos = 0
  /\ gotHeader = 0 /\ got = {}

(* The stack begins to send; a SETUP packet ends the transfer before it.   *)
Begin(d, size, wLength) ==
  /\ of' = d /\ length' = Lesser(size, wLength) /\ pos' = 0
  /\ gotHeader' = 0 /\ got' = {}

GetDevice(wLength) ==
  /\ Begin(Device, Size(Device), wLength)
  /\ UNCHANGED <<text, buffer>>

GetConfiguration(wLength) ==
  /\ Begin(Configuration, CONFIG_TOTAL_LEN, wLength)
  /\ UNCHANGED <<text, buffer>>

(* Mutant: the limit is 32 characters.                                     *)
chr_count_32(index) == IF index = 0 THEN 1 ELSE Lesser(text[index], 32)

chr_count(index) == IF index = 0 THEN 1 ELSE Lesser(text[index], 31)

(* Mutant: the loop ends before the last character.                        *)
GetString_one_short(index, wLength) ==
  /\ index \in Strings
  /\ words' = [w \in 1..31 |-> IF w < chr_count(index) THEN index ELSE words[w]]
  /\ header' = 2 * chr_count(index) + 2
  /\ Begin(index, header', wLength)
  /\ UNCHANGED text

GetString(index, wLength) ==
  /\ index \in Strings
  /\ words' = [w \in DOMAIN words \cup 1..chr_count(index) |->
                 IF w <= chr_count(index) THEN index ELSE words[w]]
  /\ header' = 2 * chr_count(index) + 2
  /\ Begin(index, header', wLength)
  /\ UNCHANGED text

(* tud_descriptor_string_cb returns NULL, and the request is refused.      *)
Refuse ==
  /\ of' = Nothing /\ length' = 0 /\ pos' = 0 /\ gotHeader' = 0 /\ got' = {}
  /\ UNCHANGED <<text, buffer>>

(* The next packet is read from where the callback's pointer points to.    *)
Packet ==
  /\ pos < length
  /\ pos' = Lesser(pos + CFG_TUD_ENDPOINT0_SIZE, length)
  /\ IF of \in Strings
     THEN /\ gotHeader' = IF pos = 0 THEN header ELSE gotHeader
          /\ got' = got \cup {words[w] : w \in {v \in DOMAIN words : pos < 2 * v + 2 /\ 2 * v < pos'}}
     ELSE UNCHANGED <<gotHeader, got>>
  /\ UNCHANGED <<text, buffer, of, length>>

Next ==
  \/ \E wLength \in Lengths : GetDevice(wLength) \/ GetConfiguration(wLength)
  \/ \E wLength \in Lengths, index \in Strings : GetString(index, wLength)
  \/ Refuse
  \/ Packet

Spec == Init /\ [][Next]_vars

-----------------------------------------------------------------------------
(* Type invariant.                                                         *)
TypeOK ==
  /\ text \in Texts
  /\ header \in Nat /\ words \in [1..31 -> 0..5]
  /\ of \in Strings \cup {Nothing, Device, Configuration}
  /\ length \in Nat /\ pos \in 0..length
  /\ gotHeader \in Nat /\ got \subseteq 0..5

(* The host receives a string as the texts define it, up to 31 characters, *)
(* whatever strings the buffer held before and wherever it broke off an    *)
(* earlier request: no word comes from another string, and the header says *)
(* how many there are.                                                     *)
HostReadsRight ==
  of \in Strings =>
    /\ got \subseteq {of}
    /\ pos > 0 => gotHeader = 2 + 2 * (IF of = 0 THEN 1 ELSE Lesser(text[of], 31))

(* No packet is read from beyond the table or buffer it belongs to, nor is *)
(* a character written there.                                              *)
StaysInside == pos <= Size(of) /\ DOMAIN words = 1..31
=============================================================================
