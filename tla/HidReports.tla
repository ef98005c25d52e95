------------------------------ MODULE HidReports ------------------------------
(***************************************************************************)
(* What keyboards and mice report over LE (devices/helpers): characters    *)
(* and usages, by their codes, the reports made of them, the report maps   *)
(* that tell what they are, and the services of such a device.             *)
(***************************************************************************)
EXTENDS Naturals, Sequences, SequencesExt, TLC

(* Usages and characters of a US keyboard. *)
KeyA == 4
Key1 == 30
Key0 == 39
KeyEnter == 40
KeyTab == 43
KeySpace == 44
Shift == 2
NoModifier == 0
LastReserved == 3
Lower == 97 .. 122
Upper == 65 .. 90
Digit == 49 .. 57  \* '1' .. '9'
\* US_PUNCTUATION: usage, plain, shifted.
Punctuation ==
  {<<45, 45, 95>>, <<46, 61, 43>>, <<47, 91, 123>>, <<48, 93, 125>>, <<49, 92, 124>>, <<51, 59, 58>>,
   <<52, 39, 34>>, <<53, 96, 126>>, <<54, 44, 60>>, <<55, 46, 62>>, <<56, 47, 63>>}
\* US_SHIFTED_DIGITS: !@#$%^&*()
ShiftedDigits == <<33, 64, 35, 36, 37, 94, 38, 42, 40, 41>>

AsciiToHid(c) ==
  CASE c \in Lower -> <<NoModifier, KeyA + (c - 97)>>
    [] c \in Upper -> <<Shift, KeyA + (c - 65)>>
    [] c \in Digit -> <<NoModifier, Key1 + (c - 49)>>
    [] c = 48 -> <<NoModifier, Key0>>
    [] c = 32 -> <<NoModifier, KeySpace>>
    [] c \in {10, 13} -> <<NoModifier, KeyEnter>>
    [] c = 9 -> <<NoModifier, KeyTab>>
    [] \E p \in Punctuation : c \in {p[2], p[3]} ->
         LET p == CHOOSE q \in Punctuation : c \in {q[2], q[3]} IN <<IF c = p[2] THEN NoModifier ELSE Shift, p[1]>>
    [] c \in ToSet(ShiftedDigits) -> LET i == CHOOSE j \in 1 .. 10 : ShiftedDigits[j] = c IN <<Shift, IF i = 10 THEN Key0 ELSE Key1 + i - 1>>
    [] OTHER -> <<>>

HidToAscii(usage, shifted) ==
  CASE usage \in KeyA .. KeyA + 25 -> (IF shifted THEN 65 ELSE 97) + (usage - KeyA)
    [] usage \in Key1 .. Key1 + 8 -> IF shifted THEN ShiftedDigits[usage - Key1 + 1] ELSE 49 + (usage - Key1)
    [] usage = Key0 -> IF shifted THEN 41 ELSE 48
    [] usage = KeySpace -> 32
    [] usage = KeyEnter -> 10
    [] usage = KeyTab -> 9
    [] \E p \in Punctuation : p[1] = usage ->
         LET p == CHOOSE q \in Punctuation : q[1] = usage IN IF shifted THEN p[3] ELSE p[2]
    [] OTHER -> 0

\* KeyboardReport: a modifier and up to six usages; six ones say that too many are held.
KeyReport(modifier, keys) == [modifier |-> modifier, keys |-> SubSeq(keys, 1, IF Len(keys) < 6 THEN Len(keys) ELSE 6)]
NoKeys == KeyReport(NoModifier, <<>>)
RollOver(r) == Len(r.keys) = 6 /\ ToSet(r.keys) = {1}
Fresh(r, previous) == SelectSeq(r.keys, LAMBDA k : k > LastReserved /\ k \notin ToSet(previous.keys))

\* top_level_usage: the page and the first usage in force at the first application collection.
RECURSIVE TopLevelUsage(_, _, _)
TopLevelUsage(items, page, usage) ==
  IF items = <<>> THEN <<>>
  ELSE LET i == Head(items)
       IN CASE i.tag = "page" -> TopLevelUsage(Tail(items), i.v, usage)
            [] i.tag = "usage" -> TopLevelUsage(Tail(items), page, IF usage = <<>> THEN <<i.v>> ELSE usage)
            [] i.tag = "collection" /\ i.v = 1 -> IF usage = <<>> THEN <<>> ELSE <<page, usage[1]>>
            [] OTHER -> TopLevelUsage(Tail(items), page, usage)

Item(tag, v) == [tag |-> tag, v |-> v]
Ranged(first, last) == <<Item("usage_min", first), Item("usage_max", last)>>
Fields(size, count, main) == <<Item("size", size), Item("count", count), Item("main", main)>>
\* KEYBOARD_REPORT_MAP: modifiers, a constant octet, five LEDs and their padding, six keys.
KeyboardReportMap ==
  <<Item("page", 1), Item("usage", 6), Item("collection", 1)>>
  \o <<Item("page", 7)>> \o Ranged(224, 231) \o Fields(1, 8, "input") \o Fields(8, 1, "input")
  \o <<Item("page", 8)>> \o Ranged(1, 5) \o Fields(1, 5, "output") \o Fields(3, 1, "output")
  \o <<Item("page", 7)>> \o Ranged(0, 101) \o Fields(8, 6, "input") \o <<Item("end", 0)>>
\* MOUSE_REPORT_MAP: three buttons and their padding, two axes and the wheel.
MouseReportMap ==
  <<Item("page", 1), Item("usage", 2), Item("collection", 1), Item("usage", 1), Item("collection", 0)>>
  \o <<Item("page", 9)>> \o Ranged(1, 3) \o Fields(1, 3, "input") \o Fields(5, 1, "input")
  \o <<Item("page", 1), Item("usage", 48), Item("usage", 49), Item("usage", 56)>> \o Fields(8, 3, "input")
  \o <<Item("end", 0), Item("end", 0)>>

--------------------------------------------------------------------------------
(* The services of a keyboard or a mouse, with the handles the database gives them. *)
Plain(uuid) == [uuid |-> uuid, notify |-> FALSE]
Notifying(uuid) == [uuid |-> uuid, notify |-> TRUE]
DeviceInformation == [uuid |-> "DeviceInformation", chars |-> <<Plain("Manufacturer"), Plain("Model"), Plain("Firmware")>>]
Battery == [uuid |-> "Battery", chars |-> <<Notifying("Level")>>]
\* setup_common_hid_device
HidServices ==
  <<DeviceInformation, Battery,
    [uuid |-> "HID", chars |-> <<Plain("ProtocolMode"), Plain("HidInformation"), Plain("HidControlPoint"), Plain("ReportMap"), Notifying("Report")>>]>>

\* A declaration and a value each, and a descriptor for what notifies.
Placed(acc, c) == [next |-> acc.next + (IF c.notify THEN 3 ELSE 2), chars |-> Append(acc.chars, c @@ [h |-> acc.next + 1])]
PlacedService(acc, s) ==
  LET r == FoldLeft(Placed, [next |-> acc.next + 1, chars |-> <<>>], s.chars)
  IN [next |-> r.next, list |-> Append(acc.list, [uuid |-> s.uuid, start |-> acc.next, end |-> r.next - 1, chars |-> r.chars])]
Services == FoldLeft(PlacedService, [next |-> 1, list |-> <<>>], HidServices).list
================================================================================
