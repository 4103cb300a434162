--------------------------- MODULE WhitelistProofs ---------------------------
(***************************************************************************)
(* Proofs about Whitelist: types, the snapshot a getter shows, the entries *)
(* that can be imported again, and that the commands which change the list *)
(* keep the promise of WhitelistPromise.                                   *)
(***************************************************************************)
EXTENDS Whitelist, SequenceTheorems, TLAPS

-----------------------------------------------------------------------------
(***************************************************************************)
(* The data.                                                               *)
(***************************************************************************)

\* A place that stands for a call: its command and sub function exist.
Callable(o, place) ==
  \/ place = Switch
  \/ place = Only
  \/ \E e \in 1..Len(o.file.elements) :
       /\ ~Illegal(o.file.elements[e])
       /\ \E k \in 1..Count(o.file.elements[e]) : place = <<e, k>>

Extended(short, long) ==
  /\ Len(short) <= Len(long)
  /\ \A i \in 1..Len(short) : long[i] = short[i]

LEMMA PrefixType ==
  HuaweiPrefix \in Seq(Byte) /\ XfusionPrefix \in Seq(Byte)
<1>1. \A a, b, c \in Byte : <<a, b, c>> \in Seq(Byte)
  OBVIOUS
<1>2. 219 \in Byte /\ 7 \in Byte /\ 0 \in Byte /\ 20 \in Byte /\ 227 \in Byte
  BY DEF Byte
<1> QED BY <1>1, <1>2 DEF HuaweiPrefix, XfusionPrefix

\* The prefix and one byte make four, and come apart again.
LEMMA PrefixAndByte ==
  ASSUME NEW b \in Byte
  PROVE  LET long == HuaweiPrefix \o <<b>>
         IN /\ Len(long) = 4
            /\ SubSeq(long, 1, 3) = HuaweiPrefix
            /\ SubSeq(long, 4, 4) = <<b>>
<1> DEFINE last == <<b>>
           long == HuaweiPrefix \o last
<1>1. HuaweiPrefix \in Seq(Byte) /\ last \in Seq(Byte)
  BY PrefixType
<1>2. Len(HuaweiPrefix) = 3 /\ Len(last) = 1 /\ last[1] = b
  BY DEF HuaweiPrefix
<1> HIDE DEF last
<1>4. /\ long \in Seq(Byte)
      /\ Len(long) = Len(HuaweiPrefix) + Len(last)
      /\ \A i \in 1..(Len(HuaweiPrefix) + Len(last)) :
            long[i] = IF i <= Len(HuaweiPrefix) THEN HuaweiPrefix[i]
                      ELSE last[i - Len(HuaweiPrefix)]
  BY <1>1, ConcatProperties
<1> HIDE DEF long
<1>5. /\ Len(long) = 4
      /\ \A i \in 1..4 : long[i] = IF i <= 3 THEN HuaweiPrefix[i] ELSE last[i - 3]
  BY <1>2, <1>4
<1>6. /\ \A i \in 1..3 : long[i] \in Byte
      /\ \A i \in 4..4 : long[i] \in Byte
  BY <1>4, <1>5
<1>7. /\ SubSeq(long, 1, 3) \in Seq(Byte) /\ Len(SubSeq(long, 1, 3)) = 3
      /\ \A i \in 1..3 : SubSeq(long, 1, 3)[i] = long[i]
  BY <1>6, SubSeqProperties
<1>8. /\ SubSeq(long, 4, 4) \in Seq(Byte) /\ Len(SubSeq(long, 4, 4)) = 1
      /\ \A i \in 1..1 : SubSeq(long, 4, 4)[i] = long[4 + i - 1]
  BY <1>6, SubSeqProperties
<1>9. SubSeq(long, 1, 3) = HuaweiPrefix
  BY <1>1, <1>2, <1>5, <1>7, SeqEqual
<1>10. SubSeq(long, 4, 4) = last
  BY <1>1, <1>2, <1>5, <1>8, SeqEqual
<1> QED BY <1>5, <1>9, <1>10 DEF last, long

\* What ipmitool can read is a byte.
LEMMA LegibleValue ==
  ASSUME NEW text \in Text, Legible(text), text # NoText
  PROVE  Value(text) \in Byte
<1> DEFINE d == text.digits
<1>1. Base(text) \in {8, 10, 16}
  BY DEF Base
<1>2. /\ Len(d) \in {1, 2} /\ d \in Seq(Digit)
      /\ \A i \in 1..Len(d) : d[i] \in 0..(Base(text) - 1)
  <2>1. d \in Seq(Digit)
    BY DEF Text
  <2>2. \A i \in 1..Len(d) : d[i] \in 0..16
    BY <2>1 DEF Digit
  <2>3. Len(d) \in {1, 2} /\ \A i \in 1..Len(d) : d[i] < Base(text)
    BY <2>1 DEF Legible
  <2> QED BY <1>1, <2>1, <2>2, <2>3
<1>3. d[1] \in 0..(Base(text) - 1) /\ (Len(d) # 1 => d[2] \in 0..(Base(text) - 1))
  BY <1>2
<1>4. Value(text) = IF Len(d) = 1 THEN d[1] ELSE Base(text) * d[1] + d[2]
  BY DEF Value, NumberOf
<1> HIDE DEF d
<1>5. CASE Base(text) = 8
  BY <1>3, <1>4, <1>5 DEF Byte
<1>6. CASE Base(text) = 10
  BY <1>3, <1>4, <1>6 DEF Byte
<1>7. CASE Base(text) = 16
  BY <1>3, <1>4, <1>7 DEF Byte
<1> QED BY <1>1, <1>5, <1>6, <1>7

\* What is stored of a sub function is a sequence of bytes.
LEMMA CodedType ==
  ASSUME NEW cmd, NEW byte \in Byte, NEW vendor
  PROVE  Coded(cmd, byte, vendor) \in Seq(Byte)
<1>1. Prefix(vendor) \in Seq(Byte) /\ <<byte>> \in Seq(Byte)
  BY PrefixType DEF Prefix
<1>2. Prefix(vendor) \o <<byte>> \in Seq(Byte)
  BY <1>1, ConcatProperties
<1> QED BY <1>1, <1>2 DEF Coded

LEMMA StoredType ==
  ASSUME NEW cmd \in Cmds, NEW text \in Text, Legible(text), NEW vendor \in Vendor
  PROVE  Stored(cmd, text, vendor) \in Seq(Byte)
<1>1. NoSubFunction \in Seq(Byte)
  BY DEF NoSubFunction, Byte
<1> QED BY <1>1, LegibleValue, CodedType DEF Stored

\* A place of a call has a command and a sub function.
LEMMA NamedType ==
  ASSUME NEW o \in Line, NEW place, Callable(o, place), place # Switch
  PROVE  /\ NamedAt(o, place)[1] \in Cmds
         /\ NamedAt(o, place)[2] \in Text
<1>1. CASE place = Only
  BY <1>1 DEF NamedAt, Line
<1>2. CASE place # Only
  <2>0. PICK e \in 1..Len(o.file.elements) :
               /\ ~Illegal(o.file.elements[e])
               /\ \E k \in 1..Count(o.file.elements[e]) : place = <<e, k>>
    BY <1>2 DEF Callable
  <2>1. PICK k \in 1..Count(o.file.elements[e]) : place = <<e, k>>
    BY <2>0
  <2>2. o.file.elements \in Seq(Element)
    BY DEF Line, File
  <2> DEFINE element == o.file.elements[e]
  <2>3. element \in Element
    BY <2>2
  <2>4. element.cmds \in Seq(Cmds) /\ element.subs \in Seq(Text)
    BY <2>3 DEF Element
  <2>5. element.cmds # <<>>
    BY <2>0 DEF Illegal
  <2>6. element.cmds[1] \in Cmds
    BY <2>4, <2>5
  <2>7. CallOf(element, k)[1] \in Cmds /\ CallOf(element, k)[2] \in Text
    <3>1. CASE element.array
      BY <3>1, <2>1, <2>4, <2>6 DEF CallOf, Count
    <3>2. CASE ~element.array
      <4>1. element.cmds[k] \in Cmds
        BY <3>2, <2>1, <2>4 DEF Count
      <4>2. NoText \in Text
        BY DEF NoText, Text
      <4> QED BY <3>2, <4>1, <4>2 DEF CallOf
    <3> QED BY <3>1, <3>2
  <2> QED
    BY <1>2, <2>1, <2>7 DEF NamedAt
<1> QED BY <1>1, <1>2

\* Taking an entry out leaves a sequence of entries, shorter by one.
LEMMA WithoutType ==
  ASSUME NEW list \in Seq(Entry), NEW entry, Listed(list, entry)
  PROVE  /\ Without(list, entry) \in Seq(Entry)
         /\ Len(Without(list, entry)) = Len(list) - 1
<1> DEFINE out == CHOOSE i \in DOMAIN list : list[i] = entry
<1>1. out \in 1..Len(list)
  BY DEF Listed
<1>2. Len(list) - 1 \in Nat
  BY <1>1
<1>3. \A j \in 1..(Len(list) - 1) :
         (IF j < out THEN list[j] ELSE list[j + 1]) \in Entry
  BY <1>1
<1>4. Without(list, entry) = [j \in 1..(Len(list) - 1) |-> IF j < out THEN list[j] ELSE list[j + 1]]
  BY DEF Without
<1>5. Without(list, entry) \in [1..(Len(list) - 1) -> Entry]
  BY <1>3, <1>4
<1> QED
  BY <1>2, <1>5, <1>4, SeqDef, LenProperties

\* A call keeps the vendor and adds at the end of the list or shortens it.
LEMMA ApplyEffect ==
  ASSUME NEW b \in Bmc, NEW o \in Line, NEW place, Callable(o, place), LegibleAt(o, place)
  PROVE  /\ Apply(b, o, place) \in Bmc
         /\ Apply(b, o, place).vendor = b.vendor
         /\ \/ Len(Apply(b, o, place).list) < Len(b.list)
            \/ Extended(b.list, Apply(b, o, place).list)
<1> USE DEF Bmc
<1>1. CASE place = Switch
  BY <1>1 DEF Apply, Extended
<1>2. CASE place # Switch
  <2> DEFINE entry == EntryAt(o, place, b.vendor)
  <2>1. entry \in Entry
    BY <1>2, NamedType, StoredType DEF EntryAt, Entry, LegibleAt, Bmc
  <2>2. CASE o.operation = "Add" /\ ~Listed(b.list, entry)
    <3>1. Apply(b, o, place) = [b EXCEPT !.list = Append(@, entry)]
      BY <1>2, <2>2 DEF Apply
    <3>2. /\ Append(b.list, entry) \in Seq(Entry)
          /\ Extended(b.list, Append(b.list, entry))
      BY <2>1 DEF Extended
    <3> QED BY <3>1, <3>2
  <2>3. CASE o.operation # "Add" /\ Listed(b.list, entry)
    <3>1. Apply(b, o, place) = [b EXCEPT !.list = Without(@, entry)]
      BY <1>2, <2>3 DEF Apply
    <3>2. /\ Without(b.list, entry) \in Seq(Entry)
          /\ Len(Without(b.list, entry)) < Len(b.list)
      BY <2>3, WithoutType
    <3> QED BY <3>1, <3>2
  <2>4. CASE /\ ~(o.operation = "Add" /\ ~Listed(b.list, entry))
             /\ ~(o.operation # "Add" /\ Listed(b.list, entry))
    <3>1. Apply(b, o, place) = b
      BY <1>2, <2>4 DEF Apply
    <3> QED BY <3>1 DEF Extended
  <2> QED BY <2>2, <2>3, <2>4
<1> QED BY <1>1, <1>2

\* The places of a command line are the switch, the command of the options and
\* those of the elements.
LEMMA PlacesShape ==
  ASSUME NEW o, NEW q \in Places(o)
  PROVE  \/ q = Switch /\ o.enabled # "none"
         \/ q = Only /\ o.netfun = 1
         \/ \E e \in DOMAIN o.file.elements :
              \E k \in 1..Count(o.file.elements[e]) : q = <<e, k>>
  BY DEF Places, FilePlaces

\* A function on 1..n is a sequence of n.
LEMMA LengthOfFunction ==
  ASSUME NEW S, NEW n \in Nat, NEW f \in [1..n -> S]
  PROVE  f \in Seq(S) /\ Len(f) = n
  BY SeqDef, LenProperties

\* One byte is shown as 0x and two digits, which are read as this byte again.
LEMMA ByteInHex ==
  ASSUME NEW b \in Byte
  PROVE  LET text == InHex(<<b>>)
         IN text # NoText /\ ~TooLong(text) /\ Legible(text) /\ Value(text) = b
<1> DEFINE text == InHex(<<b>>)
<1>1. /\ b \div 16 \in 0..15 /\ b % 16 \in 0..15
      /\ 16 * (b \div 16) + (b % 16) = b
  BY DEF Byte
<1>2. text.hex = TRUE
  BY DEF InHex
<1>3. /\ DOMAIN text.digits = 1..2
      /\ text.digits[1] = b \div 16 /\ text.digits[2] = b % 16
  <2>1. text.digits = [i \in 1..2 |-> LET byte == <<b>>[(i + 1) \div 2]
                                      IN IF i % 2 = 1 THEN byte \div 16 ELSE byte % 16]
    BY DEF InHex
  <2>2. (1 + 1) \div 2 = 1 /\ (2 + 1) \div 2 = 1 /\ 1 % 2 = 1 /\ 2 % 2 = 0
    OBVIOUS
  <2>3. <<b>>[1] = b
    OBVIOUS
  <2> HIDE DEF text
  <2> QED BY <2>1, <2>2, <2>3
<1>4. /\ text.digits \in Seq(0..15) /\ Len(text.digits) = 2
  <2> HIDE DEF text
  <2>1. text.digits = [i \in 1..2 |-> text.digits[i]]
    <3>1. text.digits = [i \in DOMAIN text.digits |-> text.digits[i]]
      BY DEF text, InHex
    <3> QED BY <1>3, <3>1
  <2>2. text.digits \in [1..2 -> 0..15]
    BY <1>1, <1>3, <2>1
  <2> QED BY <2>2, LengthOfFunction
<1> HIDE DEF text
<1>5. Base(text) = 16
  BY <1>2 DEF Base
<1>6. \A i \in DOMAIN text.digits : text.digits[i] < 16
  BY <1>1, <1>3
<1>7. text # NoText
  BY <1>2 DEF NoText
<1>8. Value(text) = b
  BY <1>1, <1>3, <1>4, <1>5 DEF Value, NumberOf
<1> QED BY <1>4, <1>5, <1>6, <1>7, <1>8 DEF TooLong, Legible, text

\* Four bytes are shown as eight digits, which are too many.
LEMMA LongInHex ==
  ASSUME NEW data \in Seq(Byte), Len(data) >= 2
  PROVE  TooLong(InHex(data))
<1> DEFINE n == 2 * Len(data)
<1>1. n \in Nat /\ n > 2
  OBVIOUS
<1>2. InHex(data).digits = [i \in 1..n |-> LET byte == data[(i + 1) \div 2]
                                           IN IF i % 2 = 1 THEN byte \div 16 ELSE byte % 16]
  BY DEF InHex
<1> HIDE DEF n
<1>3. DOMAIN InHex(data).digits = 1..n
  BY <1>2
<1>4. Len(InHex(data).digits) = n
  <2> DEFINE f == InHex(data).digits
  <2>1. f \in [1..n -> {f[i] : i \in 1..n}]
    BY <1>2
  <2> HIDE DEF f
  <2>2. f \in Seq({f[i] : i \in 1..n})
    BY <1>1, <2>1, SeqDef
  <2> QED BY <1>1, <1>3, <2>2, LenProperties DEF f
<1> QED BY <1>1, <1>4 DEF TooLong

NamesAgain(entry, vendor) ==
  LET text == Shown(entry)
  IN ~TooLong(text) /\ Legible(text) /\ Stored(entry.cmd, text, vendor) = entry.data

\* No sub function is shown as none.
LEMMA NothingNamesAgain ==
  ASSUME NEW entry, entry.data = NoSubFunction, NEW vendor
  PROVE  NamesAgain(entry, vendor)
<1>1. ~HasPrefix(entry.data)
  BY DEF HasPrefix, NoSubFunction
<1>2. Shown(entry) = NoText
  BY <1>1 DEF Shown
<1>3. ~TooLong(NoText) /\ Legible(NoText) /\ Stored(entry.cmd, NoText, vendor) = NoSubFunction
  BY DEF TooLong, NoText, Legible, Stored
<1> QED BY <1>2, <1>3 DEF NamesAgain

\* The other vendor's prefix is not taken for Huawei's.
LEMMA XfusionAndByte ==
  ASSUME NEW b \in Byte
  PROVE  LET long == XfusionPrefix \o <<b>>
         IN Len(long) = 4 /\ SubSeq(long, 1, 3) # HuaweiPrefix
<1> DEFINE last == <<b>>
           long == XfusionPrefix \o last
<1>1. XfusionPrefix \in Seq(Byte) /\ last \in Seq(Byte)
  BY PrefixType
<1>2. Len(XfusionPrefix) = 3 /\ Len(last) = 1 /\ XfusionPrefix[1] = 20 /\ HuaweiPrefix[1] = 219
  BY DEF XfusionPrefix, HuaweiPrefix
<1> HIDE DEF last
<1>3. /\ long \in Seq(Byte)
      /\ Len(long) = Len(XfusionPrefix) + Len(last)
      /\ \A i \in 1..(Len(XfusionPrefix) + Len(last)) :
            long[i] = IF i <= Len(XfusionPrefix) THEN XfusionPrefix[i]
                      ELSE last[i - Len(XfusionPrefix)]
  BY <1>1, ConcatProperties
<1> HIDE DEF long
<1>4. /\ Len(long) = 4 /\ long[1] = 20
      /\ \A i \in 1..3 : long[i] \in Byte
  <2>1. Len(long) = 4
    BY <1>2, <1>3
  <2>2. long[1] = 20
    BY <1>2, <1>3
  <2>3. \A i \in 1..3 : long[i] \in Byte
    <3>1. \A i \in 1..Len(long) : long[i] \in Byte
      BY <1>3
    <3> QED BY <2>1, <3>1
  <2> QED BY <2>1, <2>2, <2>3
<1>5. \A i \in 1..3 : SubSeq(long, 1, 3)[i] = long[i]
  BY <1>4, SubSeqProperties
<1>6. SubSeq(long, 1, 3)[1] = 20
  BY <1>4, <1>5
<1> QED BY <1>2, <1>4, <1>6 DEF last, long

\* What is shown of an entry that set has written names it again.
LEMMA ShownInvertsStored ==
  ASSUME NEW entry \in Entry, NEW vendor \in Vendor, NEW b \in Byte,
         entry.data = Coded(entry.cmd, b, vendor),
         entry.cmd \in Oem => vendor = "huawei" /\ b # 255
  PROVE  NamesAgain(entry, vendor)
<1>1. CASE entry.cmd \notin Oem /\ b = 255
  <2>1. entry.data = NoSubFunction
    BY <1>1 DEF Coded, NoSubFunction
  <2> QED BY <1>1, <2>1, NothingNamesAgain
<1>2. CASE ~(entry.cmd \notin Oem /\ b = 255)
  <2>1. b # 255 /\ <<b>> # NoSubFunction
    BY <1>2 DEF NoSubFunction
  <2>2. Shown(entry) = InHex(<<b>>)
    <3>1. CASE entry.cmd \notin Oem
      BY <2>1, <3>1 DEF Coded, Shown
    <3>2. CASE entry.cmd \in Oem
      <4>1. entry.data = HuaweiPrefix \o <<b>>
        BY <3>2 DEF Coded, Prefix
      <4>2. /\ Len(entry.data) = 4
            /\ SubSeq(entry.data, 1, 3) = HuaweiPrefix
            /\ SubSeq(entry.data, 4, 4) = <<b>>
        BY <4>1, PrefixAndByte
      <4>3. HasPrefix(entry.data)
        BY <4>2 DEF HasPrefix
      <4>4. SubSeq(entry.data, 4, Len(entry.data)) = <<b>>
        BY <4>2
      <4> DEFINE one == <<b>>
      <4>5. one # NoSubFunction /\ SubSeq(entry.data, 4, Len(entry.data)) = one
        BY <2>1, <4>4
      <4> HIDE DEF one
      <4>6. Shown(entry) = InHex(one)
        BY <3>2, <4>3, <4>5 DEF Shown
      <4> QED BY <4>6 DEF one
    <3> QED BY <3>1, <3>2
  <2>3. Stored(entry.cmd, InHex(<<b>>), vendor) = Coded(entry.cmd, b, vendor)
    BY ByteInHex DEF Stored
  <2> QED BY <2>2, <2>3, ByteInHex DEF NamesAgain
<1> QED BY <1>1, <1>2

\* Different bytes are stored differently.
LEMMA CodedApart ==
  ASSUME NEW cmd \in Oem, NEW b \in Byte, b # 255
  PROVE  Coded(cmd, b, "huawei") # Coded(cmd, 255, "huawei")
<1>1. Coded(cmd, b, "huawei") = HuaweiPrefix \o <<b>>
      /\ Coded(cmd, 255, "huawei") = HuaweiPrefix \o <<255>>
  BY DEF Coded, Prefix
<1>2. /\ SubSeq(HuaweiPrefix \o <<b>>, 4, 4) = <<b>>
      /\ SubSeq(HuaweiPrefix \o <<255>>, 4, 4) = <<255>>
  <2>1. 255 \in Byte
    BY DEF Byte
  <2>2. SubSeq(HuaweiPrefix \o <<b>>, 4, 4) = <<b>>
    BY PrefixAndByte
  <2>3. SubSeq(HuaweiPrefix \o <<255>>, 4, 4) = <<255>>
    BY <2>1, PrefixAndByte
  <2> QED BY <2>2, <2>3
<1>3. <<b>> # <<255>>
  OBVIOUS
<1> QED BY <1>1, <1>2, <1>3

\* Of a muddled entry it does not: ff is lost, and the prefix of the other
\* vendor is shown with the rest.
LEMMA MuddledIsLost ==
  ASSUME NEW entry \in Entry, NEW vendor \in Vendor, NEW b \in Byte, entry.cmd \in Oem,
         entry.data = Coded(entry.cmd, b, vendor), vendor = "xfusion" \/ b = 255
  PROVE  ~NamesAgain(entry, vendor)
<1>1. CASE vendor = "xfusion"
  <2>1. entry.data = XfusionPrefix \o <<b>>
    BY <1>1 DEF Coded, Prefix
  <2>2. ~HasPrefix(entry.data) /\ Len(entry.data) = 4
    BY <2>1, XfusionAndByte DEF HasPrefix
  <2>3. entry.data # NoSubFunction
    BY <2>2 DEF NoSubFunction
  <2>4. Shown(entry) = InHex(entry.data)
    BY <2>2, <2>3 DEF Shown
  <2>5. entry.data \in Seq(Byte)
    BY DEF Entry
  <2>6. TooLong(Shown(entry))
    <3>1. Len(entry.data) >= 2
      BY <2>2
    <3>2. TooLong(InHex(entry.data))
      BY <2>5, <3>1, LongInHex
    <3> QED BY <2>4, <3>2
  <2> QED BY <2>6 DEF NamesAgain
<1>2. CASE vendor = "huawei" /\ b = 255
  <2>1. entry.data = HuaweiPrefix \o <<b>>
    BY <1>2 DEF Coded, Prefix
  <2>2. /\ Len(entry.data) = 4
        /\ SubSeq(entry.data, 1, 3) = HuaweiPrefix
        /\ SubSeq(entry.data, 4, 4) = NoSubFunction
    <3>1. /\ Len(entry.data) = 4
          /\ SubSeq(entry.data, 1, 3) = HuaweiPrefix
          /\ SubSeq(entry.data, 4, 4) = <<b>>
      BY <2>1, PrefixAndByte
    <3>2. <<b>> = NoSubFunction
      BY <1>2 DEF NoSubFunction
    <3> QED BY <3>1, <3>2
  <2>3. Shown(entry) = NoText
    BY <2>2 DEF Shown, HasPrefix
  <2>4. Stored(entry.cmd, NoText, vendor) = NoSubFunction
    BY DEF Stored
  <2>5. entry.data # NoSubFunction
    BY <2>2 DEF NoSubFunction
  <2> QED BY <2>3, <2>4, <2>5 DEF NamesAgain
<1> QED BY <1>1, <1>2 DEF Vendor

-----------------------------------------------------------------------------
(***************************************************************************)
(* Types, together with the command lines and where a setter may stand.    *)
(***************************************************************************)
LineInv ==
  \A p \in Procs :
    /\ ProperLine(opt[p])
    /\ p \in Senders => opt[p].enabled = "none" /\ opt[p].file.state = "none"

WhereInv ==
  \A p \in Setters \cup Senders :
    /\ pc[p] = "toggle" => at[p] = Switch
    /\ pc[p] = "single" => at[p] = Only
    /\ pc[p] = "file" => at[p] = <<1, 1>>
    /\ pc[p] = "element" => at[p][1] >= 1 /\ at[p][2] = 1
    /\ pc[p] = "call" =>
         /\ at[p][1] \in 1..Len(opt[p].file.elements) /\ at[p][2] >= 1
         /\ ~Illegal(opt[p].file.elements[at[p][1]])
    /\ p \in Senders => at[p] = Only /\ pc[p] \in {"connect", "send"} \cup Ended

Shape == TypeOK /\ LineInv /\ WhereInv

\* A step of one utool leaves the others where they are.
Moved(p) ==
  /\ UNCHANGED <<opt, path>>
  /\ \A q \in Procs \ {p} : /\ pc'[q] = pc[q] /\ at'[q] = at[q]
                            /\ result'[q] = result[q] /\ taken'[q] = taken[q]
  /\ \A g \in Getters \ {p} : reading'[g] = reading[g]

\* A call that is taken: the list, and the getters that lose an entry.
LEMMA TakeEffect ==
  ASSUME Shape, NEW p \in Procs, Callable(opt[p], at[p]), Sent(p)
  PROVE  /\ bmc' \in Bmc
         /\ \/ Len(bmc'.list) < Len(bmc.list) /\ cut' = cut \cup {g \in Getters : pc[g] = "next"}
            \/ Extended(bmc.list, bmc'.list) /\ cut' = cut
         /\ cut' \subseteq Getters
         /\ taken' \in [Procs -> SUBSET (Nat \X Nat)]
         /\ taken' = [taken EXCEPT ![p] = taken[p] \cup {at[p]}]
<1>1. bmc \in Bmc /\ opt[p] \in Line /\ cut \subseteq Getters
      /\ taken \in [Procs -> SUBSET (Nat \X Nat)] /\ at[p] \in Nat \X Nat
  BY DEF Shape, TypeOK
<1>2. bmc' = Apply(bmc, opt[p], at[p]) /\ LegibleAt(opt[p], at[p])
  BY DEF Sent, Take
<1>3. /\ bmc' \in Bmc
      /\ Len(bmc'.list) < Len(bmc.list) \/ Extended(bmc.list, bmc'.list)
  BY <1>1, <1>2, ApplyEffect
<1>4. Len(bmc.list) \in Nat /\ Len(bmc'.list) \in Nat
  BY <1>1, <1>3 DEF Bmc
<1>5. Extended(bmc.list, bmc'.list) => ~(Len(bmc'.list) < Len(bmc.list))
  BY <1>4 DEF Extended
<1>6. cut' = IF Len(bmc'.list) < Len(bmc.list)
             THEN cut \cup {g \in Getters : pc[g] = "next"} ELSE cut
  BY DEF Sent, Take
<1>7. taken' = [taken EXCEPT ![p] = taken[p] \cup {at[p]}]
  BY DEF Sent, Take
<1> QED
  BY <1>1, <1>3, <1>5, <1>6, <1>7

PC == {"vendor", "connect", "options", "toggle", "single", "file", "element",
       "call", "send", "conf", "first", "next"} \cup Ended

\* What a call leaves, taken or not.
Typed ==
  /\ bmc' \in Bmc /\ cut' \subseteq Getters
  /\ taken' \in [Procs -> SUBSET (Nat \X Nat)]
  /\ result' \in [Procs -> UtoolResult]

Alone(p) ==
  /\ \A q \in Procs \ {p} : result'[q] = result[q] /\ taken'[q] = taken[q]

LEMMA CallType ==
  ASSUME Shape, NEW p \in Procs, Callable(opt[p], at[p]),
         Accepted(p) \/ Pathless \/ Suspect(p) \/ Failed(p)
  PROVE  Typed /\ Alone(p)
<1> USE DEF Typed, Alone
<1>0. /\ result \in [Procs -> UtoolResult] /\ bmc \in Bmc /\ cut \subseteq Getters
      /\ taken \in [Procs -> SUBSET (Nat \X Nat)]
  BY DEF Shape, TypeOK
<1>1. ASSUME Sent(p)
      PROVE  /\ bmc' \in Bmc /\ cut' \subseteq Getters
             /\ taken' \in [Procs -> SUBSET (Nat \X Nat)]
             /\ \A q \in Procs \ {p} : taken'[q] = taken[q]
  BY <1>0, <1>1, TakeEffect
<1>2. ASSUME ExecFails(p)
      PROVE  /\ result' \in [Procs -> UtoolResult]
             /\ \A q \in Procs \ {p} : result'[q] = result[q]
  BY <1>0, <1>2 DEF ExecFails, Fail, UtoolResult
<1>3. CASE Accepted(p)
  BY <1>0, <1>1, <1>3 DEF Accepted
<1>4. CASE Pathless
  BY <1>0, <1>4 DEF Pathless, Unsent
<1>5. CASE Suspect(p)
  <2>1. result' = [result EXCEPT ![p].code = "ERR"] /\ Unsent
    BY <1>5 DEF Suspect
  <2>2. /\ result' \in [Procs -> UtoolResult]
        /\ \A q \in Procs \ {p} : result'[q] = result[q]
    BY <1>0, <2>1 DEF UtoolResult
  <2> QED BY <1>0, <2>1, <2>2 DEF Unsent
<1>6. CASE Failed(p)
  BY <1>0, <1>1, <1>2, <1>6 DEF Failed, Unsent
<1> QED BY <1>3, <1>4, <1>5, <1>6

\* Setters and senders stand at a call that exists when they make one.
LEMMA AtCall ==
  ASSUME Shape, NEW p \in Setters \cup Senders,
         \/ pc[p] = "toggle" \/ pc[p] = "single" \/ p \in Senders
         \/ pc[p] = "call" /\ at[p][2] <= Count(opt[p].file.elements[at[p][1]])
  PROVE  Callable(opt[p], at[p])
<1>1. at[p] \in Nat \X Nat
  BY DEF Shape, TypeOK, Procs
<1>2. CASE pc[p] = "call" /\ at[p][2] <= Count(opt[p].file.elements[at[p][1]])
  <2> DEFINE e == at[p][1]
             k == at[p][2]
  <2>1. /\ at[p] = <<e, k>> /\ e \in 1..Len(opt[p].file.elements) /\ k >= 1 /\ k \in Nat
        /\ ~Illegal(opt[p].file.elements[e])
    BY <1>1, <1>2 DEF Shape, WhereInv
  <2>2. Count(opt[p].file.elements[e]) \in Nat
    <3>1. opt[p].file.elements[e] \in Element
      <4>1. opt[p].file.elements \in Seq(Element)
        BY DEF Shape, TypeOK, Line, File, Procs
      <4> QED BY <2>1, <4>1
    <3>2. /\ opt[p].file.elements[e].cmds \in Seq(Cmds)
          /\ opt[p].file.elements[e].subs \in Seq(Text)
      BY <3>1 DEF Element
    <3>3. /\ Len(opt[p].file.elements[e].cmds) \in Nat
          /\ Len(opt[p].file.elements[e].subs) \in Nat
      BY <3>2, LenProperties
    <3> HIDE DEF e
    <3> QED BY <3>3 DEF Count
  <2>3. k \in 1..Count(opt[p].file.elements[e])
    BY <1>2, <2>1, <2>2
  <2> QED BY <2>1, <2>3 DEF Callable
<1> QED BY <1>2 DEF Shape, WhereInv, Callable

\* The next place of a setter.
LEMMA ExecType ==
  ASSUME Shape, NEW p \in Setters, Callable(opt[p], at[p]),
         NEW where \in PC, NEW place \in Nat \X Nat, Exec(p, where, place)
  PROVE  /\ Typed /\ Alone(p)
         /\ \/ Goto(p, where, place)
            \/ Finish(p)
<1>1. p \in Procs
  BY DEF Procs
<1>2. Typed /\ Alone(p)
  BY <1>1, CallType DEF Exec
<1> QED BY <1>2 DEF Exec

\* One step keeps the types, and moves one utool.
LEMMA StepTypes ==
  ASSUME Shape, NEW p \in Procs, Step(p)
  PROVE  TypeOK' /\ Moved(p)
<1>0. /\ opt \in [Procs -> Line] /\ path \in {0, 1} /\ pc \in [Procs -> PC]
      /\ at \in [Procs -> Nat \X Nat] /\ result \in [Procs -> UtoolResult]
      /\ reading \in [Getters -> Reading] /\ bmc \in Bmc
      /\ taken \in [Procs -> SUBSET (Nat \X Nat)] /\ cut \subseteq Getters
  BY DEF Shape, TypeOK, PC
<1>1. SUFFICES /\ UNCHANGED <<opt, path>>
               /\ pc' \in [Procs -> PC] /\ at' \in [Procs -> Nat \X Nat]
               /\ \A q \in Procs \ {p} : pc'[q] = pc[q] /\ at'[q] = at[q]
               /\ Typed /\ Alone(p)
               /\ reading' \in [Getters -> Reading]
               /\ \A g \in Getters \ {p} : reading'[g] = reading[g]
  BY <1>0 DEF TypeOK, Moved, Typed, Alone, PC
<1> USE DEF Procs
\* Moves between the places of a program.
<1>2. ASSUME NEW where \in PC, Leave(p, where)
      PROVE  /\ pc' \in [Procs -> PC] /\ at' \in [Procs -> Nat \X Nat]
             /\ \A q \in Procs \ {p} : pc'[q] = pc[q] /\ at'[q] = at[q]
  BY <1>0, <1>2 DEF Leave
<1>3. ASSUME NEW where \in PC, NEW place \in Nat \X Nat, Goto(p, where, place)
      PROVE  /\ pc' \in [Procs -> PC] /\ at' \in [Procs -> Nat \X Nat]
             /\ \A q \in Procs \ {p} : pc'[q] = pc[q] /\ at'[q] = at[q]
  BY <1>0, <1>3 DEF Goto
<1>4. ASSUME Finish(p)
      PROVE  /\ pc' \in [Procs -> PC] /\ at' \in [Procs -> Nat \X Nat]
             /\ \A q \in Procs \ {p} : pc'[q] = pc[q] /\ at'[q] = at[q]
  BY <1>2, <1>4 DEF Finish, PC, Ended
\* Results, when nothing is sent.
<1>5. ASSUME Unsent,
             \/ UNCHANGED result
             \/ \E code \in {"OK", "ERR"}, desc \in {"NULL", "failure", "success"} :
                  Fail(p, code, desc)
             \/ \E desc \in {"failure", "success"} :
                  result' = [result EXCEPT ![p].desc = desc]
      PROVE  Typed /\ Alone(p)
  BY <1>0, <1>5 DEF Unsent, Fail, UtoolResult, Typed, Alone
<1>6. result[p].desc \in {"NULL", "failure", "success"}
  BY <1>0 DEF UtoolResult
<1>7. ASSUME Quiet
      PROVE  /\ UNCHANGED <<opt, path>> /\ reading' \in [Getters -> Reading]
             /\ \A g \in Getters \ {p} : reading'[g] = reading[g]
  BY <1>0, <1>7 DEF Quiet
<1> HIDE DEF Procs
<1>10. CASE AskVendor(p)
  BY <1>10, <1>2, <1>4, <1>5, <1>7 DEF AskVendor, PC
<1>11. CASE Connect(p)
  <2>1. FirstStep(p) \in PC
    BY DEF FirstStep, PC
  <2> QED BY <1>11, <2>1, <1>2, <1>4, <1>5, <1>7 DEF Connect
<1>12. CASE ValidateSubcommandOptions(p)
  <2>1. Switch \in Nat \X Nat /\ "toggle" \in PC
    BY DEF Switch, PC
  <2> QED BY <1>12, <2>1, <1>3, <1>4, <1>5, <1>7 DEF ValidateSubcommandOptions, Refuse
<1>13. CASE p \in Setters /\ ToggleIpmiWhitelist(p)
  <2>1. Only \in Nat \X Nat /\ "single" \in PC
    BY DEF Only, PC
  <2>2. Callable(opt[p], at[p])
    BY <1>13, AtCall DEF ToggleIpmiWhitelist
  <2> QED BY <1>13, <2>1, <2>2, <1>3, <1>4, <1>5, <1>7, ExecType DEF ToggleIpmiWhitelist
<1>14. CASE p \in Setters /\ HandleWhitelistAction(p)
  <2>1. <<1, 1>> \in Nat \X Nat /\ "file" \in PC
    BY DEF PC
  <2>2. Callable(opt[p], at[p])
    BY <1>14, AtCall DEF HandleWhitelistAction
  <2> QED BY <1>14, <2>1, <2>2, <1>3, <1>4, <1>5, <1>7, ExecType DEF HandleWhitelistAction
<1>15. CASE ParseFile(p)
  <2>1. <<1, 1>> \in Nat \X Nat /\ "element" \in PC
    BY DEF PC
  <2> QED BY <1>15, <2>1, <1>3, <1>4, <1>5, <1>6, <1>7 DEF ParseFile, Succeed, Refuse
<1>16. CASE CheckElement(p)
  <2>1. <<at[p][1], 1>> \in Nat \X Nat /\ "call" \in PC
    BY <1>0 DEF PC
  <2> QED BY <1>16, <2>1, <1>3, <1>4, <1>5, <1>7 DEF CheckElement, Succeed, Refuse
<1>17. CASE p \in Setters /\ CallElement(p)
  <2> DEFINE e == at[p][1]
             k == at[p][2]
             last == Count(Elements(p)[e])
  <2>1. <<e + 1, 1>> \in Nat \X Nat /\ <<e, k + 1>> \in Nat \X Nat /\ "element" \in PC /\ "call" \in PC
    BY <1>0 DEF PC
  <2>2. CASE k > last /\ Goto(p, "element", <<e + 1, 1>>) /\ UNCHANGED result /\ Unsent
    BY <1>17, <2>1, <2>2, <1>3, <1>5, <1>7 DEF CallElement
  <2>3. CASE k <= last /\ Exec(p, "call", <<e, k + 1>>)
    <3>1. Callable(opt[p], at[p])
      BY <1>17, <2>3, AtCall DEF CallElement, Elements
    <3> HIDE DEF e, k
    <3>2. /\ Typed /\ Alone(p)
          /\ Goto(p, "call", <<e, k + 1>>) \/ Finish(p)
      BY <1>17, <2>1, <2>3, <3>1, ExecType
    <3> QED BY <1>17, <2>1, <3>2, <1>3, <1>4, <1>7 DEF CallElement
  <2> QED BY <1>17, <2>2, <2>3 DEF CallElement
<1>18. CASE RefuseRaw(p)
  BY <1>18, <1>2, <1>4, <1>5, <1>7 DEF RefuseRaw, Free, PC, Ended
<1>19. CASE p \in Senders /\ SendRaw(p)
  <2>1. "crashed" \in PC
    BY DEF PC, Ended
  <2>2. Callable(opt[p], at[p])
    BY <1>19, AtCall
  <2>3. /\ pc' \in [Procs -> PC] /\ at' \in [Procs -> Nat \X Nat]
        /\ \A q \in Procs \ {p} : pc'[q] = pc[q] /\ at'[q] = at[q]
    BY <1>19, <2>1, <1>2, <1>4 DEF SendRaw, Free
  <2>4. CASE Failed(p) \/ Pathless \/ Suspect(p)
    BY <1>7, <1>19, <2>2, <2>3, <2>4, CallType DEF SendRaw
  <2>5. CASE Sent(p) /\ result' = [result EXCEPT ![p].desc = "success"]
    <3>1. /\ result' \in [Procs -> UtoolResult]
          /\ \A q \in Procs \ {p} : result'[q] = result[q]
      BY <1>0, <2>5 DEF UtoolResult
    <3> QED
      BY <1>0, <1>7, <1>19, <2>2, <2>3, <2>5, <3>1, TakeEffect DEF SendRaw, Typed, Alone
  <2> QED BY <1>19, <2>4, <2>5 DEF SendRaw
<1>20. CASE p \in Getters /\ GetConf(p)
  <2>1. reading' = reading /\ Unsent /\ UNCHANGED <<opt, path>>
    BY <1>20 DEF GetConf, Untouched
  <2>2. Typed /\ Alone(p)
    BY <1>20, <2>1, <1>5, <1>6 DEF GetConf, QueryFails, ExecFails, Succeed
  <2> QED
    BY <1>0, <1>20, <2>1, <2>2, <1>2, <1>4 DEF GetConf, Succeed, PC
<1>21. CASE p \in Getters /\ GetFirst(p)
  <2>1. UNCHANGED <<opt, path, bmc, taken>> /\ cut' \subseteq Getters
    BY <1>0, <1>21 DEF GetFirst
  <2>2. Typed /\ Alone(p)
    <3>1. /\ result' \in [Procs -> UtoolResult]
          /\ \A q \in Procs \ {p} : result'[q] = result[q]
      <4>1. CASE UNCHANGED result
        BY <1>0, <4>1
      <4>2. CASE Succeed(p)
        BY <1>0, <4>2 DEF Succeed, UtoolResult
      <4>3. CASE ExecFails(p)
        BY <1>0, <1>6, <4>3 DEF ExecFails, Fail, UtoolResult
      <4> QED BY <1>21, <4>1, <4>2, <4>3 DEF GetFirst, QueryFails
    <3> QED BY <1>0, <2>1, <3>1 DEF Typed, Alone
  <2>3. /\ reading' \in [Getters -> Reading]
        /\ \A g \in Getters \ {p} : reading'[g] = reading[g]
    <3>1. CASE reading' = [reading EXCEPT ![p] = [total |-> Len(bmc.list),
                              shown |-> <<bmc.list[1]>>, base |-> bmc.list]] /\ bmc.list # <<>>
      <4>1. bmc.list \in Seq(Entry)
        BY <1>0 DEF Bmc
      <4>2. <<bmc.list[1]>> \in Seq(Entry) /\ Len(bmc.list) \in Nat
        BY <3>1, <4>1
      <4> QED BY <1>0, <1>21, <3>1, <4>1, <4>2 DEF Reading
    <3>2. CASE reading' = reading
      BY <1>0, <3>2
    <3> QED BY <1>21, <3>1, <3>2 DEF GetFirst
  <2> QED
    BY <1>21, <2>1, <2>2, <2>3, <1>2, <1>4 DEF GetFirst, Succeed, PC
<1>22. CASE p \in Getters /\ GetNext(p)
  <2>1. Unsent /\ UNCHANGED <<opt, path>>
    BY <1>22 DEF GetNext, Untouched
  <2>2. Typed /\ Alone(p)
    BY <1>22, <2>1, <1>5, <1>6 DEF GetNext, QueryFails, ExecFails, Succeed
  <2> DEFINE index == Len(reading[p].shown) + 1
  <2>3. CASE /\ index <= Len(bmc.list) /\ UNCHANGED <<pc, at, result>>
             /\ reading' = [reading EXCEPT ![p].shown = Append(@, bmc.list[index])]
    <3>1. reading[p].shown \in Seq(Entry) /\ bmc.list \in Seq(Entry)
      BY <1>0, <1>22 DEF Reading, Bmc
    <3>2. Append(reading[p].shown, bmc.list[index]) \in Seq(Entry)
      BY <2>3, <3>1
    <3>3. reading' \in [Getters -> Reading]
      BY <1>0, <1>22, <2>3, <3>2 DEF Reading
    <3> QED BY <1>0, <1>22, <2>1, <2>2, <2>3, <3>3
  <2>4. CASE reading' = reading /\ (Finish(p) \/ Leave(p, "crashed"))
    BY <1>0, <2>1, <2>2, <2>4, <1>2, <1>4 DEF PC, Ended
  <2> QED BY <1>22, <2>3, <2>4 DEF GetNext, Succeed
<1> QED
  BY <1>10, <1>11, <1>12, <1>13, <1>14, <1>15, <1>16, <1>17, <1>18, <1>19, <1>20, <1>21, <1>22
  DEF Step, Setter, Sender, Getter

WhereAt(p) ==
  /\ pc[p] = "toggle" => at[p] = Switch
  /\ pc[p] = "single" => at[p] = Only
  /\ pc[p] = "file" => at[p] = <<1, 1>>
  /\ pc[p] = "element" => at[p][1] >= 1 /\ at[p][2] = 1
  /\ pc[p] = "call" =>
       /\ at[p][1] \in 1..Len(opt[p].file.elements) /\ at[p][2] >= 1
       /\ ~Illegal(opt[p].file.elements[at[p][1]])
  /\ p \in Senders => at[p] = Only /\ pc[p] \in {"connect", "send"} \cup Ended

\* A utool that has moved stands where its program expects it.
LEMMA StepWhere ==
  ASSUME Shape, NEW p \in Setters \cup Senders, Step(p)
  PROVE  WhereAt(p)'
<1>0. /\ pc \in [Procs -> PC] /\ at \in [Procs -> Nat \X Nat] /\ p \in Procs
      /\ p \in Setters => p \notin Senders
      /\ p \notin Getters
  BY ProcsAssumption DEF Shape, TypeOK, PC, Procs
<1>1. opt' = opt
  BY <1>0, StepTypes DEF Moved
<1>2. WhereAt(p)
  BY DEF Shape, WhereInv, WhereAt
<1> USE DEF WhereAt
<1>3. ASSUME NEW where \in {"connect", "options", "send", "done", "crashed"}, Leave(p, where),
             p \in Senders => where \notin {"connect", "options"}
      PROVE  WhereAt(p)'
  BY <1>0, <1>1, <1>2, <1>3 DEF Leave, Ended
<1>4. CASE p \in Setters /\ AskVendor(p)
  BY <1>0, <1>3, <1>4 DEF AskVendor, Finish
<1>5. CASE Connect(p)
  BY <1>0, <1>3, <1>5 DEF Connect, FirstStep, Finish
<1>6. CASE p \in Setters /\ ValidateSubcommandOptions(p)
  BY <1>0, <1>1, <1>3, <1>6 DEF ValidateSubcommandOptions, Refuse, Goto, Finish
<1>7. CASE p \in Setters /\ ToggleIpmiWhitelist(p)
  BY <1>0, <1>1, <1>3, <1>7 DEF ToggleIpmiWhitelist, Exec, Goto, Finish
<1>8. CASE p \in Setters /\ HandleWhitelistAction(p)
  BY <1>0, <1>1, <1>3, <1>8 DEF HandleWhitelistAction, Exec, Goto, Finish
<1>9. CASE p \in Setters /\ ParseFile(p)
  <2>1. CASE Finish(p)
    BY <1>0, <1>3, <1>9, <2>1 DEF Finish
  <2>2. CASE Goto(p, "element", <<1, 1>>)
    BY <1>0, <1>1, <1>9, <2>2 DEF Goto
  <2> QED BY <1>9, <2>1, <2>2 DEF ParseFile, Succeed, Refuse
<1>10. CASE p \in Setters /\ CheckElement(p)
  <2>1. CASE Finish(p)
    BY <1>0, <1>3, <1>10, <2>1 DEF Finish
  <2>2. CASE /\ at[p][1] <= Len(Elements(p)) /\ ~Illegal(Elements(p)[at[p][1]])
             /\ Goto(p, "call", <<at[p][1], 1>>)
    <3>1. pc[p] = "element" /\ at[p][1] >= 1 /\ at[p][1] \in Nat
      BY <1>0, <1>2, <1>10 DEF CheckElement
    <3>2. Len(opt[p].file.elements) \in Nat
      <4>1. opt[p].file.elements \in Seq(Element)
        BY <1>0 DEF Shape, TypeOK, Line, File
      <4> QED BY <4>1, LenProperties
    <3>3. pc'[p] = "call" /\ at'[p] = <<at[p][1], 1>>
      BY <1>0, <2>2 DEF Goto
    <3> QED BY <1>0, <1>1, <1>10, <2>2, <3>1, <3>2, <3>3 DEF Elements
  <2> QED BY <1>10, <2>1, <2>2 DEF CheckElement, Succeed, Refuse
<1>11. CASE p \in Setters /\ CallElement(p)
  <2> DEFINE e == at[p][1]
             k == at[p][2]
  <2>1. /\ e \in 1..Len(opt[p].file.elements) /\ k >= 1 /\ k \in Nat /\ e \in Nat
        /\ ~Illegal(opt[p].file.elements[e])
    BY <1>0, <1>2, <1>11 DEF CallElement
  <2>2. CASE Finish(p)
    BY <1>0, <1>3, <1>11, <2>2 DEF Finish
  <2>3. CASE Goto(p, "element", <<e + 1, 1>>)
    <3>1. pc'[p] = "element" /\ at'[p] = <<e + 1, 1>>
      BY <1>0, <2>3 DEF Goto
    <3> QED BY <1>0, <1>11, <2>1, <3>1
  <2>4. CASE Goto(p, "call", <<e, k + 1>>)
    <3>1. pc'[p] = "call" /\ at'[p] = <<e, k + 1>>
      BY <1>0, <2>4 DEF Goto
    <3> HIDE DEF e, k
    <3> QED BY <1>0, <1>1, <1>11, <2>1, <3>1
  <2> QED BY <1>11, <2>2, <2>3, <2>4 DEF CallElement, Exec
<1>12. CASE RefuseRaw(p)
  BY <1>3, <1>12 DEF RefuseRaw, Free, Finish
<1>13. CASE p \in Senders /\ SendRaw(p)
  BY <1>3, <1>13 DEF SendRaw, Free, Finish
<1> QED
  BY <1>0, <1>4, <1>5, <1>6, <1>7, <1>8, <1>9, <1>10, <1>11, <1>12, <1>13
  DEF Step, Setter, Sender

LEMMA ShapeInit == Init => Shape
<1> SUFFICES ASSUME Init PROVE Shape
  OBVIOUS
<1>1. /\ \A p \in Setters : opt[p] \in SetLines
      /\ \A p \in Senders : opt[p] \in SendLines
      /\ \A p \in Getters : opt[p] \in GetLines
      /\ opt = [p \in Procs |-> opt[p]]
  BY ProcsAssumption DEF Init, Procs
<1>2. LineInv
  BY <1>1, LinesAssumption, ProcsAssumption DEF LineInv, Procs
<1>3. opt \in [Procs -> Line]
  BY <1>1, <1>2 DEF LineInv, ProperLine
<1>4. bmc \in Bmc /\ path \in {0, 1}
  BY ListsAssumption DEF Init, Bmc
<1>5. /\ \A p \in Procs : Only \in Nat \X Nat /\ Switch \in Nat \X Nat
      /\ reading \in [Getters -> Reading]
  <2>1. [total |-> 0, shown |-> <<>>, base |-> <<>>] \in Reading
    BY DEF Reading
  <2> QED BY <2>1 DEF Init, Only, Switch
<1>6. TypeOK
  BY <1>3, <1>4, <1>5 DEF Init, TypeOK, UtoolResult
<1>7. WhereInv
  BY DEF Init, WhereInv, Procs
<1> QED BY <1>2, <1>6, <1>7 DEF Shape

LEMMA ShapeNext == Shape /\ [Next]_vars => Shape'
<1> SUFFICES ASSUME Shape, [Next]_vars PROVE Shape'
  OBVIOUS
<1>1. ASSUME NEW p \in Procs, Step(p) PROVE Shape'
  <2>1. TypeOK' /\ Moved(p)
    BY <1>1, StepTypes
  <2>2. LineInv'
    BY <2>1 DEF Moved, Shape, LineInv
  <2>3. ASSUME NEW q \in Setters \cup Senders PROVE WhereAt(q)'
    <3>1. CASE q = p
      BY <1>1, <3>1, StepWhere
    <3>2. CASE q # p
      <4>1. pc'[q] = pc[q] /\ at'[q] = at[q] /\ opt' = opt
        BY <2>1, <2>3, <3>2 DEF Moved, Procs
      <4>2. WhereAt(q)
        BY DEF Shape, WhereInv, WhereAt
      <4> QED BY <4>1, <4>2 DEF WhereAt
    <3> QED BY <3>1, <3>2
  <2>4. WhereInv'
    BY <2>3 DEF WhereInv, WhereAt
  <2> QED BY <2>1, <2>2, <2>4 DEF Shape
<1>2. CASE UNCHANGED vars
  BY <1>2 DEF vars, utool, Shape, TypeOK, LineInv, WhereInv
<1> QED BY <1>1, <1>2 DEF Next, AllEnded

LEMMA ShapeAlways == Spec => []Shape
  BY ShapeInit, ShapeNext, PTL DEF Spec

\* Every variable keeps its type: in particular the BMC is never asked for a
\* call that the file does not have, and a getter has something left to read.
THEOREM WhitelistTypeCorrect == Spec => []TypeOK
<1>1. Shape => TypeOK
  BY DEF Shape
<1> QED BY <1>1, ShapeAlways, PTL

\* What a getter shows of the entries that setters write names them again,
\* unless they are muddled, and then it does not.
THEOREM ShownIsImportable == Spec => []ShownCanBeImported
<1>1. ASSUME Shape PROVE ShownCanBeImported
  <2> SUFFICES ASSUME NEW g \in Getters, NEW i \in DOMAIN reading[g].shown,
                      WrittenBySet(reading[g].shown[i])
               PROVE  NamesAgain(reading[g].shown[i], bmc.vendor)
                        <=> ~Muddled(reading[g].shown[i])
    BY DEF ShownCanBeImported, NamesAgain
  <2> DEFINE entry == reading[g].shown[i]
  <2>1. entry \in Entry /\ bmc.vendor \in Vendor
    <3>1. reading[g].shown \in Seq(Entry)
      BY <1>1 DEF Shape, TypeOK, Reading
    <3> QED BY <1>1, <3>1 DEF Shape, TypeOK, Bmc
  <2> HIDE DEF entry
  <2>2. CASE entry.data = NoSubFunction
    BY <2>2, NothingNamesAgain DEF Muddled, entry
  <2>3. CASE entry.data # NoSubFunction
    <3>1. PICK b \in Byte : entry.data = Coded(entry.cmd, b, bmc.vendor)
      BY <2>3 DEF WrittenBySet, entry
    <3>2. CASE entry.cmd \notin Oem
      BY <2>1, <3>1, <3>2, ShownInvertsStored DEF Muddled, entry
    <3>3. CASE entry.cmd \in Oem /\ (bmc.vendor = "xfusion" \/ b = 255)
      <4>1. Muddled(entry)
        BY <2>3, <3>1, <3>3 DEF Muddled
      <4> QED BY <2>1, <3>1, <3>3, <4>1, MuddledIsLost DEF entry
    <3>4. CASE entry.cmd \in Oem /\ bmc.vendor = "huawei" /\ b # 255
      <4>1. entry.data # Coded(entry.cmd, 255, bmc.vendor)
        BY <3>1, <3>4, CodedApart
      <4>2. ~Muddled(entry)
        BY <3>4, <4>1 DEF Muddled
      <4>3. NamesAgain(entry, bmc.vendor)
        BY <2>1, <3>1, <3>4, ShownInvertsStored
      <4> QED BY <4>2, <4>3 DEF entry
    <3> QED BY <2>1, <3>2, <3>3, <3>4 DEF Vendor
  <2> QED BY <2>2, <2>3
<1> QED BY <1>1, ShapeAlways, PTL

-----------------------------------------------------------------------------
(***************************************************************************)
(* What a getter shows.  While it reads, what it has shown is a part of    *)
(* the list it began with, and that is a part of the list of the BMC, as   *)
(* long as nobody takes an entry out.                                      *)
(***************************************************************************)
Successful(p) == result[p].code = "OK" /\ result[p].desc = "success"

GetterAt(g) ==
  /\ pc[g] \in {"vendor", "connect", "conf", "first"} =>
       /\ reading[g].shown = <<>> /\ reading[g].base = <<>>
       /\ ~Successful(g) /\ result[g].desc # "success"
  /\ pc[g] = "next" =>
       /\ result[g].desc # "success"
       /\ reading[g].total = Len(reading[g].base)
       /\ Len(reading[g].shown) <= reading[g].total
       /\ g \notin cut => /\ Extended(reading[g].base, bmc.list)
                          /\ Extended(reading[g].shown, reading[g].base)
  /\ pc[g] = "done" /\ Successful(g) =>
       /\ Len(reading[g].shown) = Len(reading[g].base)
       /\ g \notin cut => reading[g].shown = reading[g].base

GetterInv == \A g \in Getters : GetterAt(g)

\* A step sends nothing, has a call taken, or begins to read.
LEMMA StepSends ==
  ASSUME Shape, NEW p \in Procs, Step(p)
  PROVE  \/ Unsent
         \/ Sent(p) /\ Callable(opt[p], at[p]) /\ p \notin Getters
         \/ p \in Getters /\ UNCHANGED bmc /\ cut \ {p} \subseteq cut'
<1>1. CASE p \in Setters /\ Setter(p)
  <2>1. p \notin Getters
    BY <1>1, ProcsAssumption
  <2>2. CASE ToggleIpmiWhitelist(p)
    BY <1>1, <2>1, <2>2, AtCall
    DEF ToggleIpmiWhitelist, Exec, Accepted, Failed, Pathless, Suspect
  <2>3. CASE HandleWhitelistAction(p)
    BY <1>1, <2>1, <2>3, AtCall
    DEF HandleWhitelistAction, Exec, Accepted, Failed, Pathless, Suspect
  <2>4. CASE CallElement(p)
    <3>1. CASE at[p][2] <= Count(opt[p].file.elements[at[p][1]])
      BY <1>1, <2>1, <2>4, <3>1, AtCall
      DEF CallElement, Elements, Exec, Accepted, Failed, Pathless, Suspect
    <3>2. CASE ~(at[p][2] <= Count(opt[p].file.elements[at[p][1]]))
      BY <2>4, <3>2 DEF CallElement, Elements
    <3> QED BY <3>1, <3>2
  <2> QED
    BY <1>1, <2>2, <2>3, <2>4
    DEF Setter, AskVendor, Connect, ValidateSubcommandOptions, ParseFile, CheckElement
<1>2. CASE p \in Senders /\ Sender(p)
  BY <1>2, AtCall, ProcsAssumption
  DEF Sender, Connect, RefuseRaw, SendRaw, Failed, Pathless, Suspect
<1>3. CASE p \in Getters /\ Getter(p)
  BY <1>3 DEF Getter, AskVendor, Connect, GetConf, GetFirst, GetNext, Untouched, Unsent
<1> QED BY <1>1, <1>2, <1>3 DEF Step

\* What the others do to the list a getter reads.
LEMMA StepAround ==
  ASSUME Shape, NEW p \in Procs, NEW g \in Getters \ {p}, Step(p)
  PROVE  /\ g \in cut => g \in cut'
         /\ Extended(bmc.list, bmc'.list) \/ (pc[g] = "next" => g \in cut')
<1>1. bmc' = bmc => Extended(bmc.list, bmc'.list)
  BY DEF Shape, TypeOK, Bmc, Extended
<1>2. CASE Unsent
  BY <1>1, <1>2 DEF Unsent
<1>3. CASE Sent(p) /\ Callable(opt[p], at[p])
  BY <1>3, TakeEffect
<1>4. CASE UNCHANGED bmc /\ cut \ {p} \subseteq cut'
  BY <1>1, <1>4
<1> QED BY <1>2, <1>3, <1>4, StepSends

LEMMA ExtendedAgain ==
  ASSUME NEW a \in Seq(Entry), NEW b \in Seq(Entry), NEW c \in Seq(Entry),
         Extended(a, b), Extended(b, c)
  PROVE  Extended(a, c)
<1>1. Len(a) \in Nat /\ Len(b) \in Nat /\ Len(c) \in Nat
  OBVIOUS
<1> QED BY <1>1 DEF Extended

\* The getter itself.
LEMMA StepGetter ==
  ASSUME Shape, NEW g \in Getters, GetterAt(g), Step(g)
  PROVE  GetterAt(g)'
<1>0. /\ pc \in [Procs -> PC] /\ result \in [Procs -> UtoolResult]
      /\ reading \in [Getters -> Reading] /\ bmc.list \in Seq(Entry) /\ g \in Procs
      /\ g \notin Setters /\ g \notin Senders
  BY ProcsAssumption DEF Shape, TypeOK, PC, Procs, Bmc
<1>1. reading[g].shown \in Seq(Entry) /\ reading[g].base \in Seq(Entry)
  BY <1>0 DEF Reading
<1>2. Getter(g)
  BY <1>0 DEF Step
<1>3. ASSUME ExecFails(g), result[g].desc # "success"
      PROVE  ~Successful(g)'
  BY <1>0, <1>3 DEF ExecFails, Fail, Successful, UtoolResult
<1>4. ASSUME Finish(g) PROVE pc'[g] = "done"
  BY <1>0, <1>4 DEF Finish, Leave
<1>5. CASE AskVendor(g)
  BY <1>0, <1>5 DEF AskVendor, Leave, Finish, Quiet, GetterAt, Successful
<1>6. CASE Connect(g)
  <2>1. reading' = reading
    BY <1>6 DEF Connect, Quiet
  <2>2. CASE result' = [result EXCEPT ![g].desc = "failure"] /\ Finish(g)
    BY <1>0, <1>4, <2>1, <2>2 DEF GetterAt, Successful, UtoolResult
  <2>3. CASE UNCHANGED result /\ Leave(g, "conf")
    BY <1>0, <1>6, <2>1, <2>3 DEF Connect, Leave, GetterAt, Successful
  <2> QED BY <1>0, <1>6, <2>2, <2>3 DEF Connect, FirstStep
<1>7. CASE GetConf(g)
  <2>1. reading' = reading /\ reading[g].shown = <<>> /\ reading[g].base = <<>>
        /\ result[g].desc # "success" /\ ~Successful(g)
    BY <1>7 DEF GetConf, GetterAt
  <2>2. CASE Finish(g)
    BY <1>4, <2>1, <2>2 DEF GetterAt
  <2>3. CASE Leave(g, "first") /\ UNCHANGED result
    BY <1>0, <2>1, <2>3 DEF Leave, GetterAt, Successful
  <2> QED BY <1>7, <2>2, <2>3 DEF GetConf, Succeed
<1>8. CASE GetFirst(g)
  <2>1. reading[g].shown = <<>> /\ reading[g].base = <<>>
        /\ result[g].desc # "success" /\ bmc' = bmc
    BY <1>8 DEF GetFirst, GetterAt
  <2>2. CASE Finish(g) /\ UNCHANGED reading
    BY <1>4, <2>1, <2>2 DEF GetterAt
  <2>3. CASE /\ bmc.list # <<>> /\ Leave(g, "next") /\ UNCHANGED result
             /\ reading' = [reading EXCEPT ![g] = [total |-> Len(bmc.list),
                              shown |-> <<bmc.list[1]>>, base |-> bmc.list]]
    <3>1. pc'[g] = "next" /\ result'[g].desc # "success"
      BY <1>0, <2>1, <2>3 DEF Leave
    <3>2. /\ reading'[g].total = Len(bmc.list) /\ reading'[g].base = bmc.list
          /\ reading'[g].shown = <<bmc.list[1]>>
      BY <1>0, <2>3
    <3>3. Len(bmc.list) \in Nat /\ Len(bmc.list) >= 1
      BY <1>0, <2>3
    <3>4. Len(<<bmc.list[1]>>) = 1
      OBVIOUS
    <3>5. Extended(<<bmc.list[1]>>, bmc.list) /\ Extended(bmc.list, bmc.list)
      BY <3>3, <3>4 DEF Extended
    <3> QED BY <2>1, <3>1, <3>2, <3>3, <3>4, <3>5 DEF GetterAt
  <2> QED BY <1>8, <2>2, <2>3 DEF GetFirst, Succeed
<1>9. CASE GetNext(g)
  <2> DEFINE index == Len(reading[g].shown) + 1
             total == reading[g].total
  <2>1. /\ result[g].desc # "success" /\ total = Len(reading[g].base)
        /\ Len(reading[g].shown) <= total
        /\ g \notin cut => /\ Extended(reading[g].base, bmc.list)
                           /\ Extended(reading[g].shown, reading[g].base)
        /\ bmc' = bmc /\ cut' = cut
    BY <1>9 DEF GetNext, GetterAt, Untouched, Unsent
  <2>2. Len(reading[g].shown) \in Nat /\ Len(reading[g].base) \in Nat /\ Len(bmc.list) \in Nat
    BY <1>0, <1>1
  <2>3. CASE index > total /\ Succeed(g) /\ UNCHANGED reading
    <3>1. Len(reading[g].shown) = Len(reading[g].base)
      BY <2>1, <2>2, <2>3
    <3>2. g \notin cut => reading[g].shown = reading[g].base
      BY <1>1, <2>1, <3>1, SeqEqual DEF Extended
    <3> QED BY <1>4, <2>1, <2>3, <3>1, <3>2 DEF Succeed, GetterAt
  <2>4. CASE /\ index <= total /\ index <= Len(bmc.list) /\ UNCHANGED <<pc, at, result>>
             /\ reading' = [reading EXCEPT ![g].shown = Append(@, bmc.list[index])]
    <3> DEFINE longer == Append(reading[g].shown, bmc.list[index])
    <3>1. /\ reading'[g].shown = longer /\ reading'[g].base = reading[g].base
          /\ reading'[g].total = total
      BY <1>0, <2>4 DEF Reading
    <3>2. /\ Len(longer) = Len(reading[g].shown) + 1
          /\ \A i \in 1..Len(reading[g].shown) : longer[i] = reading[g].shown[i]
          /\ longer[Len(reading[g].shown) + 1] = bmc.list[index]
      <4>1. bmc.list[index] \in Entry
        BY <1>0, <2>2, <2>4
      <4> QED BY <1>1, <4>1
    <3>3. g \notin cut => Extended(longer, reading[g].base)
      BY <2>1, <2>2, <2>4, <3>2 DEF Extended
    <3>4. pc'[g] = "next" /\ result'[g].desc # "success"
      BY <1>9, <2>1, <2>4 DEF GetNext
    <3> HIDE DEF longer
    <3> QED BY <2>1, <2>2, <2>4, <3>1, <3>2, <3>3, <3>4 DEF GetterAt
  <2>5. CASE ExecFails(g) /\ (Finish(g) \/ Leave(g, "crashed"))
    BY <1>0, <1>3, <1>4, <2>1, <2>5 DEF Leave, GetterAt
  <2> QED BY <1>9, <2>3, <2>4, <2>5 DEF GetNext, QueryFails
<1> QED BY <1>2, <1>5, <1>6, <1>7, <1>8, <1>9 DEF Getter

LEMMA GetterNext == Shape /\ GetterInv /\ [Next]_vars => GetterInv'
<1> SUFFICES ASSUME Shape, GetterInv, [Next]_vars, NEW g \in Getters PROVE GetterAt(g)'
  BY DEF GetterInv
<1>0. GetterAt(g)
  BY DEF GetterInv
<1>1. ASSUME NEW p \in Procs \ {g}, Step(p) PROVE GetterAt(g)'
  <2>1. g \in Procs \ {p}
    BY <1>1 DEF Procs
  <2>2. /\ pc'[g] = pc[g] /\ result'[g] = result[g] /\ reading'[g] = reading[g]
        /\ bmc' \in Bmc
    BY <1>1, <2>1, StepTypes DEF Moved, TypeOK
  <2>3. /\ g \in cut => g \in cut'
        /\ Extended(bmc.list, bmc'.list) \/ (pc[g] = "next" => g \in cut')
    BY <1>1, StepAround
  <2>4. /\ reading[g].base \in Seq(Entry) /\ bmc.list \in Seq(Entry)
        /\ bmc'.list \in Seq(Entry)
    BY <2>2 DEF Shape, TypeOK, Reading, Bmc
  <2>5. pc[g] = "next" /\ g \notin cut' => Extended(reading[g].base, bmc'.list)
    BY <1>0, <2>3, <2>4, ExtendedAgain DEF GetterAt
  <2> QED BY <1>0, <2>2, <2>3, <2>5 DEF GetterAt, Successful
<1>2. CASE Step(g)
  BY <1>0, <1>2, StepGetter
<1>3. CASE UNCHANGED vars
  BY <1>0, <1>3 DEF vars, utool, GetterAt, Successful
<1> QED BY <1>1, <1>2, <1>3 DEF Next, AllEnded

\* A successful getter has shown the list as it was when it began to read it,
\* unless an entry was removed meanwhile, and never fewer entries than it had.
THEOREM SnapshotIsShown == Spec => []ListIsSnapshot
<1>1. Init => GetterInv
  BY DEF Init, GetterInv, GetterAt, Successful, Procs
<1>2. ASSUME Shape, GetterInv PROVE ListIsSnapshot
  <2> SUFFICES ASSUME NEW g \in Getters, Report(g) = "success"
               PROVE  /\ Len(reading[g].shown) = Len(reading[g].base)
                      /\ g \notin cut => reading[g].shown = reading[g].base
    BY DEF ListIsSnapshot
  <2>1. pc[g] = "done" /\ Successful(g)
    BY DEF Report, Successful
  <2> QED BY <1>2, <2>1 DEF GetterInv, GetterAt
<1> QED BY <1>1, <1>2, GetterNext, ShapeAlways, PTL DEF Spec

-----------------------------------------------------------------------------
(***************************************************************************)
(* The promise.  While a writer works, the BMC has taken nothing that is   *)
(* not before its place, and everything before its place that can be sent. *)
(***************************************************************************)
Working == {"toggle", "single", "file", "element", "call"}

DoneBefore(p) ==
  /\ \A q \in taken[p] : Before(q, at[p])
  /\ path = 1 => \A q \in Places(opt[p]) : Before(q, at[p]) =>
                   q \in taken[p] \/ (InsecureAt(opt[p], q) /\ result[p].code = "ERR")

WriterAt(p) ==
  /\ taken[p] \subseteq Places(opt[p])
  /\ pc[p] \notin Ended => result[p].desc = "NULL" /\ (path = 0 => taken[p] = {})
  /\ pc[p] \in {"vendor", "connect", "options", "send"} =>
       taken[p] = {} /\ result[p].code = "OK"
  /\ pc[p] \in Working => DoneBefore(p)

WriterInv == \A p \in Writers : WriterAt(p)

\* The three ways in which a step of a writer keeps the promise.
CallStep(p) ==
  /\ Sent(p) /\ at[p] \in Places(opt[p]) \ taken[p]
  /\ \A q \in Places(opt[p]) : Before(q, at[p]) => q \in taken[p] \/ InsecureAt(opt[p], q)
  /\ Report(p) = "pending" /\ Report(p)' \in {"pending", "success", "failure", "crashed"}
  /\ Report(p)' = "success" => taken'[p] = Places(opt[p])

EndStep(p) ==
  /\ UNCHANGED <<bmc, taken>> /\ Report(p) = "pending"
  /\ Report(p)' \in {"success", "nothing", "failure", "crashed"}
  /\ Report(p)' = "success" => path = 0 \/ taken[p] = Places(opt[p])
  /\ Report(p)' = "nothing" => taken[p] = {}

QuietStep(p) == UNCHANGED <<bmc, taken>> /\ Report(p)' = Report(p)

Kept(p) == CallStep(p) \/ EndStep(p) \/ QuietStep(p)

LEMMA CountType ==
  ASSUME NEW element \in Element
  PROVE  Count(element) \in Nat
<1>1. element.cmds \in Seq(Cmds) /\ element.subs \in Seq(Text)
  BY DEF Element
<1>2. Len(element.cmds) \in Nat /\ Len(element.subs) \in Nat
  BY <1>1, LenProperties
<1> QED BY <1>2 DEF Count

\* Places as pairs of numbers.
LEMMA PlaceFacts ==
  ASSUME NEW o \in Line, NEW q \in Places(o)
  PROVE  /\ q = <<q[1], q[2]>> /\ q[1] \in Nat /\ q[2] \in Nat
         /\ \/ q[1] = 0 /\ q[2] = 1 /\ o.enabled # "none"
            \/ q[1] = 0 /\ q[2] = 2 /\ o.netfun = 1
            \/ /\ q[1] \in 1..Len(o.file.elements) /\ q[1] >= 1
               /\ q[2] >= 1 /\ q[2] <= Count(o.file.elements[q[1]])
<1>1. /\ DOMAIN o.file.elements = 1..Len(o.file.elements) /\ Len(o.file.elements) \in Nat
      /\ \A e \in DOMAIN o.file.elements : Count(o.file.elements[e]) \in Nat
  <2>1. o.file.elements \in Seq(Element)
    BY DEF Line, File
  <2> QED BY <2>1, LenProperties, CountType
<1>2. CASE \E e \in DOMAIN o.file.elements :
             \E k \in 1..Count(o.file.elements[e]) : q = <<e, k>>
  <2>1. PICK e \in DOMAIN o.file.elements :
               \E k \in 1..Count(o.file.elements[e]) : q = <<e, k>>
    BY <1>2
  <2>2. PICK k \in 1..Count(o.file.elements[e]) : q = <<e, k>>
    BY <2>1
  <2>3. /\ e \in Nat /\ k \in Nat /\ k >= 1 /\ k <= Count(o.file.elements[e])
        /\ e \in 1..Len(o.file.elements)
    BY <1>1
  <2>4. q[1] = e /\ q[2] = k
    BY <2>2
  <2>5. q = <<q[1], q[2]>>
    BY <2>2
  <2>6. /\ q[1] \in Nat /\ q[2] \in Nat
        /\ q[1] \in 1..Len(o.file.elements) /\ q[1] >= 1
        /\ q[2] >= 1 /\ q[2] <= Count(o.file.elements[q[1]])
    BY <2>3, <2>4
  <2> QED BY <2>5, <2>6, Zenon
<1>3. CASE q = Switch /\ o.enabled # "none"
  <2>1. q[1] = 0 /\ q[2] = 1 /\ q = <<q[1], q[2]>>
    BY <1>3 DEF Switch
  <2> QED BY <1>3, <2>1
<1>4. CASE q = Only /\ o.netfun = 1
  <2>1. q[1] = 0 /\ q[2] = 2 /\ q = <<q[1], q[2]>>
    BY <1>4 DEF Only
  <2> QED BY <1>4, <2>1
<1> QED
  BY <1>2, <1>3, <1>4 DEF Places, FilePlaces

\* A move without a call.
LEMMA SkipOutcome ==
  ASSUME Shape, NEW p \in Setters, WriterAt(p), pc[p] \in Working,
         NEW where \in Working, NEW place, Goto(p, where, place),
         UNCHANGED result, Unsent, Quiet,
         \A q \in Places(opt[p]) : Before(q, place) <=> Before(q, at[p])
  PROVE  WriterAt(p)' /\ Kept(p)
<1>0. /\ pc \in [Procs -> PC] /\ at \in [Procs -> Nat \X Nat] /\ p \in Procs
  BY DEF Shape, TypeOK, PC, Procs
<1>1. /\ pc'[p] = where /\ at'[p] = place /\ opt' = opt /\ path' = path
      /\ result' = result /\ taken' = taken /\ bmc' = bmc
  BY <1>0 DEF Goto, Unsent, Quiet
<1>2. DoneBefore(p)'
  BY <1>1 DEF WriterAt, DoneBefore
<1>3. pc[p] \notin Ended /\ where \notin Ended
      /\ where \notin {"vendor", "connect", "options", "send"}
  BY DEF Working, Ended
<1>4. WriterAt(p)'
  BY <1>1, <1>2, <1>3 DEF WriterAt
<1>5. QuietStep(p)
  BY <1>1, <1>3 DEF QuietStep, Report, Ended
<1> QED BY <1>4, <1>5 DEF Kept

\* A call, taken or not, after which a setter goes on or gives up.
LEMMA ExecOutcome ==
  ASSUME Shape, NEW p \in Setters, WriterAt(p), pc[p] \in Working,
         at[p] \in Places(opt[p]), Callable(opt[p], at[p]), Quiet,
         NEW where \in Working, NEW place \in Nat \X Nat, Exec(p, where, place),
         \A q \in Places(opt[p]) : Before(q, place) <=> Before(q, at[p]) \/ q = at[p]
  PROVE  WriterAt(p)' /\ Kept(p)
<1>0. /\ pc \in [Procs -> PC] /\ at \in [Procs -> Nat \X Nat] /\ p \in Procs
      /\ result \in [Procs -> UtoolResult] /\ taken \in [Procs -> SUBSET (Nat \X Nat)]
      /\ opt[p] \in Line
  BY DEF Shape, TypeOK, PC, Procs
<1>1. opt' = opt /\ path' = path
  BY DEF Quiet
<1>2. /\ pc[p] \notin Ended /\ where \notin Ended
      /\ where \notin {"vendor", "connect", "options", "send"}
      /\ Report(p) = "pending"
  BY DEF Working, Ended, Report
<1>3. ~Before(at[p], at[p])
  BY <1>0 DEF Before
<1>4. /\ DoneBefore(p) /\ taken[p] \subseteq Places(opt[p]) /\ result[p].desc = "NULL"
      /\ path = 0 => taken[p] = {}
  BY <1>2 DEF WriterAt
<1>5. at[p] \notin taken[p]
  BY <1>3, <1>4 DEF DoneBefore
<1>6. ASSUME Goto(p, where, place)
      PROVE  /\ pc'[p] = where /\ at'[p] = place /\ Report(p)' = "pending"
  BY <1>0, <1>2, <1>6 DEF Goto, Report, Ended
<1>7. ASSUME Finish(p)
      PROVE  pc'[p] = "done" /\ pc'[p] \in Ended /\ pc'[p] \notin Working
             /\ pc'[p] \notin {"vendor", "connect", "options", "send"}
  BY <1>0, <1>7 DEF Finish, Leave, Ended, Working
<1>8. ASSUME path = 1, Sent(p)
      PROVE  /\ taken'[p] = taken[p] \cup {at[p]} /\ taken'[p] \subseteq Places(opt[p])
             /\ \A q \in Places(opt[p]) :
                  Before(q, at[p]) => q \in taken[p] \/ InsecureAt(opt[p], q)
  BY <1>0, <1>4, <1>8 DEF Sent, Take, DoneBefore
<1>9. CASE Accepted(p) /\ Goto(p, where, place)
  <2>1. path = 1 /\ Sent(p) /\ result' = result
    BY <1>9 DEF Accepted, Sent, Run
  <2>2. DoneBefore(p)'
    BY <1>1, <1>4, <1>6, <1>8, <1>9, <2>1 DEF DoneBefore
  <2>3. WriterAt(p)'
    BY <1>1, <1>2, <1>4, <1>6, <1>8, <1>9, <2>1, <2>2 DEF WriterAt
  <2>4. CallStep(p)
    BY <1>2, <1>5, <1>6, <1>8, <1>9, <2>1 DEF CallStep
  <2> QED BY <2>3, <2>4 DEF Kept
<1>10. CASE Pathless /\ Goto(p, where, place)
  <2>1. path = 0 /\ bmc' = bmc /\ taken' = taken /\ result' = result
    BY <1>10 DEF Pathless, Unsent
  <2>2. DoneBefore(p)'
    BY <1>1, <1>4, <2>1 DEF DoneBefore
  <2>3. WriterAt(p)'
    BY <1>1, <1>2, <1>4, <1>6, <1>10, <2>1, <2>2 DEF WriterAt
  <2>4. QuietStep(p)
    BY <1>2, <1>6, <1>10, <2>1 DEF QuietStep
  <2> QED BY <2>3, <2>4 DEF Kept
<1>11. CASE Suspect(p) /\ Goto(p, where, place)
  <2>1. /\ path = 1 /\ bmc' = bmc /\ taken' = taken /\ InsecureAt(opt[p], at[p])
        /\ result' = [result EXCEPT ![p].code = "ERR"]
    BY <1>11 DEF Suspect, Unsent
  <2>2. result'[p].code = "ERR" /\ result'[p].desc = "NULL"
    BY <1>0, <1>4, <2>1 DEF UtoolResult
  <2>3. DoneBefore(p)'
    BY <1>1, <1>4, <1>6, <1>11, <2>1, <2>2 DEF DoneBefore
  <2>4. WriterAt(p)'
    BY <1>1, <1>2, <1>4, <1>6, <1>11, <2>1, <2>2, <2>3 DEF WriterAt
  <2>5. QuietStep(p)
    BY <1>2, <1>6, <1>11, <2>1 DEF QuietStep
  <2> QED BY <2>4, <2>5 DEF Kept
<1>12. CASE Failed(p) /\ Finish(p)
  <2>1. path = 1 /\ ExecFails(p) /\ (Sent(p) \/ Unsent)
    BY <1>12 DEF Failed, Run
  <2>2. Report(p)' = "failure"
    BY <1>0, <1>4, <1>7, <1>12, <2>1 DEF ExecFails, Fail, Report, UtoolResult
  <2>3. CASE Sent(p)
    <3>1. CallStep(p)
      BY <1>2, <1>5, <1>8, <2>1, <2>2, <2>3 DEF CallStep
    <3> QED BY <1>1, <1>7, <1>8, <1>12, <2>1, <2>3, <3>1 DEF WriterAt, Kept
  <2>4. CASE Unsent
    <3>1. EndStep(p)
      BY <1>2, <2>2, <2>4 DEF EndStep, Unsent
    <3> QED BY <1>1, <1>4, <1>7, <1>12, <2>4, <3>1 DEF WriterAt, Kept, Unsent
  <2> QED BY <2>1, <2>3, <2>4
<1> QED BY <1>9, <1>10, <1>11, <1>12 DEF Exec

\* The end of a program, when nothing is sent: the report says what was taken.
LEMMA EndOutcome ==
  ASSUME Shape, NEW p \in Writers, WriterAt(p), pc[p] \notin Ended, Quiet, Unsent,
         Finish(p) \/ Leave(p, "crashed"), result' \in [Procs -> UtoolResult],
         Report(p)' # "pending",
         Report(p)' = "success" => path = 0 \/ taken[p] = Places(opt[p]),
         Report(p)' = "nothing" => taken[p] = {}
  PROVE  WriterAt(p)' /\ Kept(p)
<1>1. /\ pc \in [Procs -> PC] /\ p \in Procs
  BY DEF Shape, TypeOK, PC, Procs, Writers
<1>2. /\ pc'[p] \in {"done", "crashed"} /\ opt' = opt /\ path' = path
      /\ taken' = taken /\ bmc' = bmc
  BY <1>1 DEF Finish, Leave, Quiet, Unsent
<1>3. WriterAt(p)'
  BY <1>2 DEF WriterAt, Ended, Working
<1>4. Report(p) = "pending"
  BY DEF Report, Ended
<1>5. Report(p)' \in {"success", "nothing", "failure", "crashed"}
  BY <1>1 DEF Report, UtoolResult
<1> QED BY <1>2, <1>3, <1>4, <1>5 DEF EndStep, Kept

\* How the places of a command line lie around those a setter passes.
LEMMA PassSwitch ==
  ASSUME NEW o \in Line, NEW q \in Places(o)
  PROVE  /\ Before(q, Only) <=> Before(q, Switch) \/ q = Switch
         /\ Before(q, <<1, 1>>) <=> Before(q, Only) \/ q = Only
         /\ o.enabled = "none" => q # Switch
         /\ o.netfun = 0 => q # Only
         /\ ~Before(q, Switch)
<1>0. q = <<q[1], q[2]>>
  BY PlaceFacts
<1> DEFINE a == q[1]
           b == q[2]
<1>1. a \in Nat /\ b \in Nat
  BY PlaceFacts
<1>2. \/ a = 0 /\ b = 1 /\ o.enabled # "none"
      \/ a = 0 /\ b = 2 /\ o.netfun = 1
      \/ a >= 1 /\ b >= 1
  BY PlaceFacts
<1>3. /\ q = Switch <=> (a = 0 /\ b = 1)
      /\ q = Only <=> (a = 0 /\ b = 2)
  BY <1>0 DEF Switch, Only
<1>4. /\ Before(q, Switch) <=> (a < 0 \/ (a = 0 /\ b < 1))
      /\ Before(q, Only) <=> (a < 0 \/ (a = 0 /\ b < 2))
      /\ Before(q, <<1, 1>>) <=> (a < 1 \/ (a = 1 /\ b < 1))
  BY DEF Before, Switch, Only
<1> HIDE DEF a, b
<1>5. /\ Before(q, Only) <=> Before(q, Switch) \/ q = Switch
      /\ ~Before(q, Switch)
  BY <1>1, <1>2, <1>3, <1>4
<1>6. Before(q, <<1, 1>>) <=> Before(q, Only) \/ q = Only
  BY <1>1, <1>2, <1>3, <1>4
<1>7. /\ o.enabled = "none" => q # Switch
      /\ o.netfun = 0 => q # Only
  BY <1>2, <1>3
<1> QED BY <1>5, <1>6, <1>7

LEMMA PassElement ==
  ASSUME NEW o \in Line, NEW q \in Places(o), NEW e \in Nat, NEW k \in Nat
  PROVE  /\ Before(q, <<e, k + 1>>) <=> Before(q, <<e, k>>) \/ q = <<e, k>>
         /\ e \in 1..Len(o.file.elements) /\ k > Count(o.file.elements[e]) =>
              (Before(q, <<e + 1, 1>>) <=> Before(q, <<e, k>>))
         /\ e > Len(o.file.elements) => Before(q, <<e, 1>>)
<1>1. q = <<q[1], q[2]>> /\ q[1] \in Nat /\ q[2] \in Nat
  BY PlaceFacts
<1>2. /\ q = <<e, k>> <=> q[1] = e /\ q[2] = k
      /\ Before(q, <<e, k>>) <=> q[1] < e \/ (q[1] = e /\ q[2] < k)
      /\ Before(q, <<e, k + 1>>) <=> q[1] < e \/ (q[1] = e /\ q[2] < k + 1)
      /\ Before(q, <<e + 1, 1>>) <=> q[1] < e + 1 \/ (q[1] = e + 1 /\ q[2] < 1)
      /\ Before(q, <<e, 1>>) <=> q[1] < e \/ (q[1] = e /\ q[2] < 1)
  BY <1>1 DEF Before
<1>3. Len(o.file.elements) \in Nat
  <2>1. o.file.elements \in Seq(Element)
    BY DEF Line, File
  <2> QED BY <2>1, LenProperties
<1>4. /\ q[2] >= 1
      /\ q[1] # 0 => /\ q[1] \in 1..Len(o.file.elements)
                     /\ q[2] <= Count(o.file.elements[q[1]])
  <2>1. CASE q[1] = 0 /\ q[2] = 1
    BY <2>1
  <2>2. CASE q[1] = 0 /\ q[2] = 2
    BY <2>2
  <2> QED BY <2>1, <2>2, PlaceFacts
<1>5. Before(q, <<e, k + 1>>) <=> Before(q, <<e, k>>) \/ q = <<e, k>>
  BY <1>1, <1>2
<1>6. ASSUME e \in 1..Len(o.file.elements), k > Count(o.file.elements[e])
      PROVE  Before(q, <<e + 1, 1>>) <=> Before(q, <<e, k>>)
  <2>1. Count(o.file.elements[e]) \in Nat
    <3>1. o.file.elements \in Seq(Element)
      BY DEF Line, File
    <3>2. o.file.elements[e] \in Element
      BY <1>6, <3>1
    <3> QED BY <3>2, CountType
  <2>2. q[1] = e => q[2] < k
    BY <1>1, <1>4, <1>6, <2>1
  <2> QED BY <1>1, <1>2, <1>4, <2>2
<1>7. e > Len(o.file.elements) => Before(q, <<e, 1>>)
  BY <1>1, <1>2, <1>3, <1>4
<1> QED BY <1>5, <1>6, <1>7

\* Every step of a setter keeps the promise.
LEMMA StepSetter ==
  ASSUME Shape, NEW p \in Setters, WriterAt(p), Setter(p)
  PROVE  WriterAt(p)' /\ Kept(p)
<1>0. /\ pc \in [Procs -> PC] /\ at \in [Procs -> Nat \X Nat] /\ p \in Procs /\ p \in Writers
      /\ result \in [Procs -> UtoolResult] /\ taken \in [Procs -> SUBSET (Nat \X Nat)]
      /\ opt[p] \in Line /\ ProperLine(opt[p]) /\ path \in {0, 1}
  BY DEF Shape, TypeOK, LineInv, PC, Procs, Writers
<1>1. WhereAt(p)
  BY DEF Shape, WhereInv, WhereAt
<1>2. result' \in [Procs -> UtoolResult]
  <2>1. Step(p)
    BY DEF Step
  <2> QED BY <1>0, <2>1, StepTypes DEF TypeOK
<1>3. ASSUME Finish(p) PROVE pc'[p] = "done"
  BY <1>0, <1>3 DEF Finish, Leave
<1>4. ASSUME NEW code \in {"OK", "ERR"}, NEW desc \in {"NULL", "failure"},
             Fail(p, code, desc), Finish(p)
      PROVE  /\ Report(p)' \in {"failure", "nothing"}
             /\ Report(p)' = "nothing" => code = "OK" /\ desc = "NULL"
  BY <1>0, <1>3, <1>4 DEF Fail, Report, Ended
<1>5. ASSUME pc[p] \notin Ended, Quiet, Unsent, Refuse(p)
      PROVE  WriterAt(p)' /\ Kept(p)
  BY <1>0, <1>2, <1>4, <1>5, EndOutcome DEF Refuse
\* Success: everything has been taken, or the code tells that something was left out.
<1>6. ASSUME pc[p] \in Working, Quiet, Unsent, Succeed(p),
             \A q \in Places(opt[p]) : Before(q, at[p])
      PROVE  WriterAt(p)' /\ Kept(p)
  <2>1. pc[p] \notin Ended /\ Finish(p) /\ pc'[p] = "done"
    BY <1>3, <1>6 DEF Working, Ended, Succeed
  <2>2. result'[p].code = result[p].code /\ result'[p].desc = "success"
    BY <1>0, <1>6 DEF Succeed, UtoolResult
  <2>3. /\ Report(p)' \in {"failure", "success"}
        /\ Report(p)' = "success" => result[p].code = "OK"
    BY <2>1, <2>2 DEF Report
  <2>4. result[p].code = "OK" => path = 0 \/ taken[p] = Places(opt[p])
    BY <1>0, <1>6 DEF WriterAt, DoneBefore
  <2> QED BY <1>0, <1>2, <1>6, <2>1, <2>3, <2>4, EndOutcome
<1>10. CASE AskVendor(p)
  <2>1. /\ taken[p] = {} /\ result[p].code = "OK" /\ result[p].desc = "NULL"
        /\ pc[p] \notin Ended /\ UNCHANGED result /\ Unsent /\ Quiet
    BY <1>10 DEF AskVendor, WriterAt, Ended
  <2>2. CASE Leave(p, "connect")
    <3>1. pc'[p] = "connect"
      BY <1>0, <2>2 DEF Leave
    <3> QED BY <2>1, <3>1
        DEF WriterAt, Working, Ended, Kept, QuietStep, Report, Unsent, Quiet
  <2>3. CASE Finish(p)
    <3>1. Report(p)' = "nothing"
      BY <1>3, <2>1, <2>3 DEF Report
    <3> QED BY <1>0, <1>2, <2>1, <2>3, <3>1, EndOutcome
  <2> QED BY <1>10, <2>2, <2>3 DEF AskVendor
<1>11. CASE Connect(p)
  <2>1. /\ taken[p] = {} /\ result[p].code = "OK" /\ result[p].desc = "NULL"
        /\ pc[p] \notin Ended /\ Unsent /\ Quiet
    BY <1>11 DEF Connect, WriterAt, Ended
  <2>2. CASE UNCHANGED result /\ Leave(p, "options")
    <3>1. pc'[p] = "options"
      BY <1>0, <2>2 DEF Leave
    <3> QED BY <2>1, <2>2, <3>1
        DEF WriterAt, Working, Ended, Kept, QuietStep, Report, Unsent, Quiet
  <2>3. CASE result' = [result EXCEPT ![p].desc = "failure"] /\ Finish(p)
    <3>1. Report(p)' = "failure"
      BY <1>0, <1>3, <2>1, <2>3 DEF Report, UtoolResult
    <3> QED BY <1>0, <1>2, <2>1, <2>3, <3>1, EndOutcome
  <2> QED BY <1>11, <2>2, <2>3 DEF Connect, FirstStep
<1>12. CASE ValidateSubcommandOptions(p)
  <2>1. /\ taken[p] = {} /\ result[p].code = "OK" /\ result[p].desc = "NULL"
        /\ pc[p] \notin Ended /\ Unsent /\ Quiet
    BY <1>12 DEF ValidateSubcommandOptions, WriterAt, Ended
  <2>2. CASE UNCHANGED result /\ Goto(p, "toggle", Switch)
    <3>1. pc'[p] = "toggle" /\ at'[p] = Switch
      BY <1>0, <2>2 DEF Goto
    <3>2. DoneBefore(p)'
      BY <1>0, <2>1, <3>1, PassSwitch DEF DoneBefore, Unsent, Quiet
    <3> QED BY <2>1, <2>2, <3>1, <3>2
        DEF WriterAt, Working, Ended, Kept, QuietStep, Report, Unsent, Quiet
  <2>3. CASE Fail(p, "ERR", "NULL") /\ Finish(p)
    BY <1>0, <1>2, <1>4, <2>1, <2>3, EndOutcome
  <2> QED BY <1>5, <1>12, <2>1, <2>2, <2>3 DEF ValidateSubcommandOptions
<1>13. CASE ToggleIpmiWhitelist(p)
  <2>1. pc[p] = "toggle" /\ at[p] = Switch /\ Quiet /\ pc[p] \in Working /\ "single" \in Working
        /\ Only \in Nat \X Nat
    BY <1>1, <1>13 DEF ToggleIpmiWhitelist, WhereAt, Working, Only
  <2>2. CASE opt[p].enabled = "none" /\ Goto(p, "single", Only) /\ UNCHANGED result /\ Unsent
    BY <1>0, <2>1, <2>2, PassSwitch, SkipOutcome
  <2>3. CASE opt[p].enabled # "none" /\ Exec(p, "single", Only)
    <3>1. at[p] \in Places(opt[p])
      BY <2>1, <2>3 DEF Places
    <3> QED BY <1>0, <2>1, <2>3, <3>1, AtCall, PassSwitch, ExecOutcome
  <2> QED BY <1>13, <2>2, <2>3 DEF ToggleIpmiWhitelist
<1>14. CASE HandleWhitelistAction(p)
  <2>1. pc[p] = "single" /\ at[p] = Only /\ Quiet /\ pc[p] \in Working /\ "file" \in Working
        /\ <<1, 1>> \in Nat \X Nat
    BY <1>1, <1>14 DEF HandleWhitelistAction, WhereAt, Working
  <2>2. CASE opt[p].netfun = 0 /\ Goto(p, "file", <<1, 1>>) /\ UNCHANGED result /\ Unsent
    BY <1>0, <2>1, <2>2, PassSwitch, SkipOutcome
  <2>3. CASE opt[p].netfun = 1 /\ Exec(p, "file", <<1, 1>>)
    <3>1. at[p] \in Places(opt[p])
      BY <2>1, <2>3 DEF Places
    <3> QED BY <1>0, <2>1, <2>3, <3>1, AtCall, PassSwitch, ExecOutcome
  <2> QED BY <1>14, <2>2, <2>3 DEF HandleWhitelistAction
<1>15. CASE ParseFile(p)
  <2>1. /\ pc[p] = "file" /\ at[p] = <<1, 1>> /\ Quiet /\ Unsent
        /\ pc[p] \in Working /\ pc[p] \notin Ended /\ "element" \in Working
        /\ result[p].desc = "NULL"
    BY <1>1, <1>15 DEF ParseFile, WhereAt, Working, Ended, WriterAt
  <2>2. CASE opt[p].file.state = "none" /\ Succeed(p)
    <3>1. opt[p].file.elements = <<>>
      BY <1>0, <2>2 DEF ProperLine
    <3>2. \A q \in Places(opt[p]) : Before(q, at[p])
      <4>1. Len(opt[p].file.elements) = 0
        BY <3>1
      <4>2. \A q \in Places(opt[p]) : Before(q, <<1, 1>>)
        <5>1. 1 \in Nat /\ 1 > Len(opt[p].file.elements)
          BY <4>1
        <5> QED BY <1>0, <5>1, PassElement
      <4> QED BY <2>1, <4>2
    <3> QED BY <1>6, <2>1, <2>2, <3>2
  <2>3. CASE Fail(p, "ERR", result[p].desc) /\ Finish(p)
    BY <1>0, <1>2, <1>4, <2>1, <2>3, EndOutcome
  <2>4. CASE UNCHANGED result /\ Goto(p, "element", <<1, 1>>)
    BY <2>1, <2>4, SkipOutcome
  <2> QED BY <1>5, <1>15, <2>1, <2>2, <2>3, <2>4 DEF ParseFile
<1>16. CASE CheckElement(p)
  <2> DEFINE e == at[p][1]
  <2>1. /\ pc[p] = "element" /\ at[p] = <<e, 1>> /\ e \in Nat /\ Quiet /\ Unsent
        /\ pc[p] \in Working /\ pc[p] \notin Ended /\ "call" \in Working
    BY <1>0, <1>1, <1>16 DEF CheckElement, WhereAt, Working, Ended
  <2>2. CASE e > Len(Elements(p)) /\ Succeed(p)
    <3>1. \A q \in Places(opt[p]) : Before(q, <<e, 1>>)
      BY <1>0, <2>1, <2>2, PassElement DEF Elements
    <3> QED BY <1>6, <2>1, <2>2, <3>1
  <2>3. CASE UNCHANGED result /\ Goto(p, "call", <<e, 1>>)
    BY <2>1, <2>3, SkipOutcome
  <2> QED BY <1>5, <1>16, <2>1, <2>2, <2>3 DEF CheckElement
<1>17. CASE CallElement(p)
  <2> DEFINE e == at[p][1]
             k == at[p][2]
             last == Count(Elements(p)[e])
  <2>1. /\ pc[p] = "call" /\ at[p] = <<e, k>> /\ e \in Nat /\ k \in Nat /\ Quiet
        /\ pc[p] \in Working /\ "call" \in Working /\ "element" \in Working
        /\ e \in 1..Len(opt[p].file.elements) /\ k >= 1
        /\ <<e, k + 1>> \in Nat \X Nat /\ <<e + 1, 1>> \in Nat \X Nat
    BY <1>0, <1>1, <1>17 DEF CallElement, WhereAt, Working
  <2> HIDE DEF e, k
  <2>2. CASE k > last /\ Goto(p, "element", <<e + 1, 1>>) /\ UNCHANGED result /\ Unsent
    <3>1. \A q \in Places(opt[p]) : Before(q, <<e + 1, 1>>) <=> Before(q, <<e, k>>)
      BY <1>0, <2>1, <2>2, PassElement DEF Elements
    <3> QED BY <2>1, <2>2, <3>1, SkipOutcome
  <2>3. CASE k <= last /\ Exec(p, "call", <<e, k + 1>>)
    <3>1. opt[p].file.elements \in Seq(Element)
      BY <1>0 DEF Line, File
    <3>2. last \in Nat
      BY <2>1, <3>1, CountType DEF Elements
    <3>3. at[p] \in FilePlaces(opt[p].file)
      BY <2>1, <2>3, <3>1, <3>2 DEF FilePlaces, Elements
    <3>4. at[p] \in Places(opt[p])
      BY <3>3 DEF Places
    <3>5. Callable(opt[p], at[p])
      BY <1>0, <2>1, <2>3, AtCall DEF Elements, e, k
    <3>6. \A q \in Places(opt[p]) :
             Before(q, <<e, k + 1>>) <=> Before(q, <<e, k>>) \/ q = <<e, k>>
      BY <1>0, <2>1, PassElement
    <3> QED BY <2>1, <2>3, <3>4, <3>5, <3>6, ExecOutcome
  <2> QED BY <1>17, <2>2, <2>3 DEF CallElement, e, k
<1> QED
  BY <1>10, <1>11, <1>12, <1>13, <1>14, <1>15, <1>16, <1>17 DEF Setter

\* The command lines of senders have one place at most.
LEMMA SenderPlaces ==
  ASSUME Shape, NEW p \in Senders
  PROVE  /\ at[p] = Only /\ Callable(opt[p], at[p])
         /\ Places(opt[p]) = IF opt[p].netfun = 1 THEN {Only} ELSE {}
<1>1. /\ p \in Procs /\ ProperLine(opt[p])
      /\ opt[p].enabled = "none" /\ opt[p].file.state = "none"
  BY DEF Shape, LineInv, Procs
<1>2. opt[p].file.elements = <<>>
  BY <1>1 DEF ProperLine
<1>3. FilePlaces(opt[p].file) = {}
  BY <1>2 DEF FilePlaces
<1>4. at[p] = Only
  BY DEF Shape, WhereInv
<1> QED BY <1>1, <1>3, <1>4 DEF Places, Callable

\* Every step of a sender keeps the promise.
LEMMA StepSender ==
  ASSUME Shape, NEW p \in Senders, WriterAt(p), Sender(p)
  PROVE  WriterAt(p)' /\ Kept(p)
<1>0. /\ pc \in [Procs -> PC] /\ at \in [Procs -> Nat \X Nat] /\ p \in Procs /\ p \in Writers
      /\ result \in [Procs -> UtoolResult] /\ taken \in [Procs -> SUBSET (Nat \X Nat)]
      /\ p \notin Setters /\ path \in {0, 1}
  BY ProcsAssumption DEF Shape, TypeOK, PC, Procs, Writers
<1>1. result' \in [Procs -> UtoolResult]
  <2>1. Step(p)
    BY DEF Step
  <2> QED BY <1>0, <2>1, StepTypes DEF TypeOK
<1>2. /\ pc[p] \notin Ended /\ taken[p] = {} /\ result[p].code = "OK" /\ result[p].desc = "NULL"
      /\ Quiet
  BY DEF Sender, Connect, RefuseRaw, SendRaw, WriterAt, Ended
<1>3. /\ Finish(p) => pc'[p] = "done"
      /\ Leave(p, "crashed") => pc'[p] = "crashed"
  BY <1>0 DEF Finish, Leave
<1>4. CASE Connect(p)
  <2>1. CASE UNCHANGED result /\ Leave(p, "send")
    <3>1. pc'[p] = "send"
      BY <1>0, <2>1 DEF Leave
    <3> QED BY <1>2, <1>4, <2>1, <3>1
        DEF Connect, WriterAt, Working, Ended, Kept, QuietStep, Report, Unsent, Quiet
  <2>2. CASE result' = [result EXCEPT ![p].desc = "failure"] /\ Finish(p)
    <3>1. Report(p)' = "failure"
      BY <1>0, <1>2, <1>3, <2>2 DEF Report, UtoolResult
    <3> QED BY <1>0, <1>1, <1>2, <1>4, <2>2, <3>1, EndOutcome DEF Connect
  <2> QED BY <1>0, <1>4, <2>1, <2>2 DEF Connect, FirstStep
<1>5. CASE RefuseRaw(p)
  <2>1. Unsent /\ (Finish(p) \/ Leave(p, "crashed")) /\ Fail(p, "OK", "failure")
    BY <1>5 DEF RefuseRaw, Free
  <2>2. Report(p)' \in {"failure", "crashed"}
    BY <1>0, <1>3, <2>1 DEF Fail, Report, Ended
  <2> QED BY <1>0, <1>1, <1>2, <2>1, <2>2, EndOutcome
<1>6. CASE SendRaw(p)
  <2>1. /\ Places(opt[p]) = {Only} /\ at[p] = Only
        /\ Finish(p) \/ Leave(p, "crashed")
    BY <1>6, SenderPlaces DEF SendRaw, Free
  <2>2. pc'[p] \in {"done", "crashed"} /\ opt' = opt /\ path' = path
    BY <1>2, <1>3, <2>1 DEF Quiet
  <2>3. Report(p) = "pending"
    BY <1>2 DEF Report, Ended
  <2>4. \A q \in Places(opt[p]) : ~Before(q, at[p])
    BY <2>1 DEF Before, Only
  <2>5. Report(p)' \in {"success", "nothing", "failure", "crashed"}
    BY <1>0, <1>1, <2>2 DEF Report, UtoolResult
  <2>6. CASE Sent(p) /\ result' = [result EXCEPT ![p].desc = "success"] /\ Finish(p)
    <3>1. taken'[p] = {Only}
      BY <1>0, <1>2, <2>1, <2>6 DEF Sent, Take
    <3>2. Report(p)' = "success"
      BY <1>0, <1>2, <1>3, <2>6 DEF Report, UtoolResult
    <3>3. CallStep(p)
      BY <1>2, <2>1, <2>3, <2>4, <2>6, <3>1, <3>2 DEF CallStep
    <3> QED BY <2>1, <2>2, <3>1, <3>3 DEF WriterAt, Working, Ended, Kept
  <2>7. CASE Failed(p)
    <3>1. ExecFails(p) /\ (Sent(p) \/ Unsent)
      BY <2>7 DEF Failed
    <3>2. Report(p)' \in {"failure", "crashed"}
      BY <1>0, <2>2, <3>1 DEF ExecFails, Fail, Report, Ended
    <3>3. CASE Sent(p)
      <4>1. taken'[p] = {Only}
        BY <1>0, <1>2, <2>1, <3>3 DEF Sent, Take
      <4>2. CallStep(p)
        BY <1>2, <2>1, <2>3, <2>4, <3>2, <3>3 DEF CallStep
      <4> QED BY <2>1, <2>2, <4>1, <4>2 DEF WriterAt, Working, Ended, Kept
    <3>4. CASE Unsent
      BY <1>0, <1>1, <1>2, <2>1, <3>2, <3>4, EndOutcome
    <3> QED BY <3>1, <3>3, <3>4
  <2>8. CASE Pathless \/ Suspect(p)
    <3>1. Unsent /\ result'[p].desc = "NULL"
      BY <1>0, <1>2, <2>8 DEF Pathless, Suspect, UtoolResult
    <3>2. Report(p)' # "success" /\ Report(p)' # "pending"
      BY <2>2, <3>1 DEF Report, Ended
    <3> QED BY <1>0, <1>1, <1>2, <2>1, <3>1, <3>2, EndOutcome
  <2> QED BY <1>6, <2>6, <2>7, <2>8 DEF SendRaw
<1> QED BY <1>4, <1>5, <1>6 DEF Sender

LEMMA StepWriter ==
  ASSUME Shape, NEW p \in Writers, WriterAt(p), Step(p)
  PROVE  WriterAt(p)' /\ Kept(p)
<1>1. p \notin Getters /\ (p \in Setters => p \notin Senders)
  BY ProcsAssumption DEF Writers
<1> QED BY <1>1, StepSetter, StepSender DEF Step

LEMMA WriterNext == Shape /\ WriterInv /\ [Next]_vars => WriterInv'
<1> SUFFICES ASSUME Shape, WriterInv, [Next]_vars, NEW p \in Writers PROVE WriterAt(p)'
  BY DEF WriterInv
<1>0. WriterAt(p)
  BY DEF WriterInv
<1>1. ASSUME NEW q \in Procs \ {p}, Step(q) PROVE WriterAt(p)'
  <2>1. p \in Procs \ {q}
    BY <1>1 DEF Procs, Writers
  <2>2. /\ pc'[p] = pc[p] /\ at'[p] = at[p] /\ result'[p] = result[p]
        /\ taken'[p] = taken[p] /\ opt' = opt /\ path' = path
    BY <1>1, <2>1, StepTypes DEF Moved
  <2> QED BY <1>0, <2>2 DEF WriterAt, DoneBefore
<1>2. CASE Step(p)
  BY <1>0, <1>2, StepWriter
<1>3. CASE UNCHANGED vars
  BY <1>0, <1>3 DEF vars, utool, WriterAt, DoneBefore
<1> QED BY <1>1, <1>2, <1>3 DEF Next, AllEnded

\* The promise names the same places and calls.
LEMMA SamePlaces ==
  ASSUME NEW o
  PROVE  /\ Promise!Places(o) = Places(o)
         /\ \A q, r : Promise!Before(q, r) = Before(q, r)
         /\ \A q : Promise!InsecureAt(o, q) = InsecureAt(o, q)
         /\ \A q : Promise!LegibleAt(o, q) = LegibleAt(o, q)
<1>1. \A element : Promise!Count(element) = Count(element)
  BY DEF Promise!Count, Count
<1>2. Promise!Switch = Switch /\ Promise!Only = Only
  BY DEF Promise!Switch, Switch, Promise!Only, Only
<1>3. Promise!FilePlaces(o.file) = FilePlaces(o.file)
  BY <1>1 DEF Promise!FilePlaces, FilePlaces
<1>4. \A q : Promise!NamedAt(o, q) = NamedAt(o, q)
  BY <1>2 DEF Promise!NamedAt, NamedAt, Promise!CallOf, CallOf, Promise!NoText, NoText
<1> QED
  BY <1>2, <1>3, <1>4
  DEF Promise!Places, Places, Promise!Before, Before, Promise!InsecureAt, InsecureAt,
      Promise!LegibleAt, LegibleAt, Promise!Legible, Legible, Promise!Base, Base,
      Promise!NoText, NoText

LEMMA SameApply ==
  ASSUME NEW b, NEW o, NEW q
  PROVE  Promise!Apply(b, o, q) = Apply(b, o, q)
<1>1. Promise!Switch = Switch /\ Promise!Only = Only
  BY DEF Promise!Switch, Switch, Promise!Only, Only
<1>2. \A v : Promise!Prefix(v) = Prefix(v)
  BY DEF Promise!Prefix, Prefix, Promise!HuaweiPrefix, HuaweiPrefix,
         Promise!XfusionPrefix, XfusionPrefix
<1>3. \A c, s, v : Promise!Stored(c, s, v) = Stored(c, s, v)
  BY <1>2 DEF Promise!Stored, Stored, Promise!NoSubFunction, NoSubFunction, Promise!Coded, Coded,
              Promise!NoText, NoText, Promise!Value, Value, Promise!NumberOf, NumberOf,
              Promise!Base, Base
<1>4. Promise!NamedAt(o, q) = NamedAt(o, q)
  BY <1>1 DEF Promise!NamedAt, NamedAt, Promise!CallOf, CallOf, Promise!NoText, NoText
<1>5. \A v : Promise!EntryAt(o, q, v) = EntryAt(o, q, v)
  BY <1>3, <1>4 DEF Promise!EntryAt, EntryAt
<1>6. \A l, e : /\ Promise!Listed(l, e) = Listed(l, e)
                /\ Promise!Without(l, e) = Without(l, e)
  BY DEF Promise!Listed, Listed, Promise!Without, Without
<1> QED BY <1>1, <1>5, <1>6 DEF Promise!Apply, Apply

\* A step that keeps the promise is one of the promise.
LEMMA StepKeeps ==
  ASSUME Shape, WriterInv, [Next]_vars
  PROVE  [Promise!PNext]_(Promise!promised)
<1> USE DEF Promise!promised
<1>1. taken \in [Procs -> SUBSET (Nat \X Nat)] /\ Writers \subseteq Procs
  BY DEF Shape, TypeOK, Procs, Writers
<1>2. ASSUME NEW p \in Procs, Step(p)
      PROVE  /\ UNCHANGED <<opt, path>>
             /\ \A q \in Writers \ {p} : Report(q)' = Report(q) /\ taken'[q] = taken[q]
  <2>1. Moved(p)
    BY <1>2, StepTypes
  <2> QED BY <1>1, <2>1 DEF Moved, Report
<1>3. ASSUME NEW p \in Writers, Step(p)
      PROVE  [Promise!PNext]_(Promise!promised)
  <2>1. Kept(p)
    BY <1>3, StepWriter DEF WriterInv
  <2>2. /\ UNCHANGED <<opt, path>>
        /\ \A q \in Writers \ {p} : Report(q)' = Report(q) /\ taken'[q] = taken[q]
    BY <1>1, <1>2, <1>3
  <2>3. [q \in Writers |-> Report(q)]' = [[q \in Writers |-> Report(q)] EXCEPT ![p] = Report(p)']
    BY <2>2
  <2>4. CASE CallStep(p)
    <3>1. /\ bmc' = Apply(bmc, opt[p], at[p]) /\ LegibleAt(opt[p], at[p])
          /\ taken'[p] = taken[p] \cup {at[p]}
      BY <1>1, <2>4 DEF CallStep, Sent, Take
    <3>2. [q \in Writers |-> taken[q]]'
            = [[q \in Writers |-> taken[q]] EXCEPT ![p] = @ \cup {at[p]}]
      BY <2>2, <3>1
    <3>3. Promise!Due(p, at[p])
      BY <2>4, SamePlaces DEF CallStep, Promise!Due
    <3>4. \/ UNCHANGED [q \in Writers |-> Report(q)]
          \/ \E word \in {"success", "failure", "crashed"} :
               /\ [q \in Writers |-> Report(q)]' = [[q \in Writers |-> Report(q)] EXCEPT ![p] = word]
               /\ word = "success" => taken'[p] = Places(opt[p])
      BY <2>2, <2>3, <2>4 DEF CallStep
    <3>5. Promise!Call(p)
      BY <2>2, <2>4, <3>1, <3>2, <3>3, <3>4, SamePlaces, SameApply
      DEF CallStep, Promise!Call, Promise!Reported
    <3> QED BY <3>5 DEF Promise!PNext
  <2>5. CASE EndStep(p)
    <3>1. /\ UNCHANGED <<opt, path, bmc, [q \in Writers |-> taken[q]]>>
          /\ [q \in Writers |-> Report(q)][p] = "pending"
          /\ [q \in Writers |-> taken[q]][p] = taken[p]
      BY <2>2, <2>5 DEF EndStep
    <3>2. Promise!Places(opt[p]) = Places(opt[p])
      BY SamePlaces
    <3>3. Promise!End(p)
      <4>1. CASE Report(p)' = "success"
        <5>1. Promise!Reported(p, "success") /\ (path = 1 => taken[p] = Places(opt[p]))
          BY <2>3, <2>5, <4>1 DEF EndStep, Promise!Reported
        <5> QED BY <3>1, <3>2, <5>1 DEF Promise!End
      <4>2. CASE Report(p)' = "nothing"
        <5>1. Promise!Reported(p, "nothing") /\ taken[p] = {}
          BY <2>3, <2>5, <4>2 DEF EndStep, Promise!Reported
        <5> QED BY <3>1, <5>1 DEF Promise!End
      <4>3. CASE Report(p)' \in {"failure", "crashed"}
        <5>1. Promise!Reported(p, "failure") \/ Promise!Reported(p, "crashed")
          BY <2>3, <4>3 DEF Promise!Reported
        <5> QED BY <3>1, <5>1 DEF Promise!End
      <4> QED BY <2>5, <4>1, <4>2, <4>3 DEF EndStep
    <3> QED BY <3>3 DEF Promise!PNext
  <2>6. CASE QuietStep(p)
    <3>1. [q \in Writers |-> Report(q)]' = [q \in Writers |-> Report(q)]
      BY <2>2, <2>6 DEF QuietStep
    <3> QED BY <2>2, <2>6, <3>1 DEF QuietStep
  <2> QED BY <2>1, <2>4, <2>5, <2>6 DEF Kept
<1>4. ASSUME NEW p \in Procs \ Writers, Step(p)
      PROVE  [Promise!PNext]_(Promise!promised)
  <2>1. p \notin Setters /\ p \notin Senders
    BY <1>4 DEF Writers
  <2>2. bmc' = bmc
    BY <1>4, <2>1
    DEF Step, Getter, AskVendor, Connect, GetConf, GetFirst, GetNext, Untouched, Unsent
  <2>3. /\ [q \in Writers |-> Report(q)]' = [q \in Writers |-> Report(q)]
        /\ [q \in Writers |-> taken[q]]' = [q \in Writers |-> taken[q]]
        /\ opt' = opt /\ path' = path
    BY <1>2, <1>4
  <2> QED BY <2>2, <2>3
<1>5. CASE UNCHANGED vars
  BY <1>5 DEF vars, utool, Report
<1> QED BY <1>3, <1>4, <1>5 DEF Next, AllEnded

\* Whatever runs beside them, the commands that change the white list make
\* their calls in order, each once, none after a failure, and tell the truth.
THEOREM CallsKeepThePromise == Spec => CallsAreInOrder
<1>1. Init => WriterInv
  BY DEF Init, WriterInv, WriterAt, Working, Ended, Procs, Writers
<1>2. Init => Promise!PInit
  BY DEF Init, Promise!PInit, Report, Ended, Procs, Writers
<1> QED
  BY <1>1, <1>2, WriterNext, StepKeeps, ShapeAlways, PTL
  DEF Spec, CallsAreInOrder, Promise!PSpec

-----------------------------------------------------------------------------
(***************************************************************************)
(* The end.  A step leads on to a later part of the program, or it takes   *)
(* one element, entry or call off what the part has left.                  *)
(***************************************************************************)

\* On to a later part.
LEMMA PartLeft ==
  ASSUME NEW p, PartsLeft(p)' < PartsLeft(p)
  PROVE  FewerLeft(p)
<1>1. PartsLeft(p) \in 0..7 /\ PartsLeft(p)' \in 0..7
  BY DEF PartsLeft
<1> QED BY <1>1 DEF FewerLeft, Fewer

\* The way of a setter through its file.
LEMMA ElementLeft ==
  ASSUME Shape, NEW p \in Setters, CheckElement(p) \/ CallElement(p)
  PROVE  FewerLeft(p)
<1>0. /\ pc \in [Procs -> PC] /\ at \in [Procs -> Nat \X Nat] /\ p \in Procs
      /\ opt[p].file.elements \in Seq(Element)
  BY DEF Shape, TypeOK, PC, Procs, Line, File
<1>1. opt' = opt
  BY DEF CheckElement, CallElement, Quiet
<1> DEFINE list == opt[p].file.elements
           e == at[p][1]
           k == at[p][2]
<1>2. Len(list) \in Nat /\ e \in Nat /\ k \in Nat /\ e >= 1
  BY <1>0 DEF Shape, WhereInv, CheckElement, CallElement
<1>3. PartsLeft(p) = 1 /\ pc[p] \in {"element", "call"}
  BY DEF CheckElement, CallElement, PartsLeft
<1>4. Elements(p) = list /\ Elements(p)' = list
  BY <1>1 DEF Elements
<1>5. ItemsLeft(p) = Len(list) + 1 - e
  BY <1>3, <1>4 DEF ItemsLeft
<1>6. CASE Finish(p)
  <2>1. PartsLeft(p)' = 0
    BY <1>0, <1>6 DEF Finish, Leave, PartsLeft
  <2> QED BY <1>3, <2>1, PartLeft
<1>7. CASE pc[p] = "element" /\ e <= Len(list) /\ Goto(p, "call", <<e, 1>>)
  <2>1. pc'[p] = "call" /\ at'[p][1] = e /\ at'[p][2] = 1
    BY <1>0, <1>7 DEF Goto
  <2>2. PartsLeft(p)' = 1 /\ ItemsLeft(p)' = Len(list) + 1 - e
    BY <1>4, <2>1 DEF PartsLeft, ItemsLeft
  <2>3. Count(list[e]) \in Nat /\ e \in DOMAIN list
    BY <1>0, <1>2, <1>7, CountType
  <2>4. CallsLeft(p) = Count(list[e]) + 1 /\ CallsLeft(p)' = Count(list[e]) + 1 - 1
    <3> HIDE DEF list, e
    <3> QED BY <1>4, <1>7, <2>1, <2>3 DEF CallsLeft, e
  <2> QED BY <1>3, <1>5, <2>2, <2>3, <2>4 DEF FewerLeft, Fewer
<1>8. CASE pc[p] = "call" /\ Goto(p, "element", <<e + 1, 1>>)
  <2>1. pc'[p] = "element" /\ at'[p][1] = e + 1
    BY <1>0, <1>8 DEF Goto
  <2>2. PartsLeft(p)' = 1 /\ ItemsLeft(p)' = Len(list) + 1 - (e + 1)
    BY <1>4, <2>1 DEF PartsLeft, ItemsLeft
  <2>3. e <= Len(list)
    BY <1>0, <1>2, <1>8 DEF Shape, WhereInv
  <2>4. Fewer(ItemsLeft(p), ItemsLeft(p)')
    <3> HIDE DEF list, e
    <3> QED BY <1>2, <1>5, <2>2, <2>3 DEF Fewer
  <2> QED BY <1>3, <2>2, <2>4 DEF FewerLeft
<1>9. CASE pc[p] = "call" /\ k <= Count(list[e]) /\ Goto(p, "call", <<e, k + 1>>)
  <2>1. pc'[p] = "call" /\ at'[p][1] = e /\ at'[p][2] = k + 1
    BY <1>0, <1>9 DEF Goto
  <2>2. PartsLeft(p)' = 1 /\ ItemsLeft(p)' = Len(list) + 1 - e
    BY <1>4, <2>1 DEF PartsLeft, ItemsLeft
  <2>3. e \in DOMAIN list
    BY <1>0, <1>9 DEF Shape, WhereInv
  <2>4. Count(list[e]) \in Nat
    BY <1>0, <2>3, CountType
  <2>5. /\ CallsLeft(p) = Count(list[e]) + 1 - k
        /\ CallsLeft(p)' = Count(list[e]) + 1 - (k + 1)
    <3> HIDE DEF list, e, k
    <3> QED BY <1>4, <1>9, <2>1, <2>3 DEF CallsLeft, e, k
  <2> QED BY <1>2, <1>3, <1>5, <1>9, <2>2, <2>4, <2>5 DEF FewerLeft, Fewer
<1> QED
  BY <1>6, <1>7, <1>8, <1>9
  DEF CheckElement, CallElement, Exec, Succeed, Refuse, Elements

\* The walk of a getter along the list.
LEMMA EntryLeft ==
  ASSUME Shape, NEW p \in Getters, GetNext(p)
  PROVE  FewerLeft(p)
<1>0. /\ pc \in [Procs -> PC] /\ p \in Procs /\ reading \in [Getters -> Reading]
      /\ reading[p].shown \in Seq(Entry) /\ reading[p].total \in Nat
      /\ bmc.list \in Seq(Entry)
  BY DEF Shape, TypeOK, PC, Procs, Reading, Bmc
<1>1. PartsLeft(p) = 1 /\ pc[p] = "next"
  BY DEF GetNext, PartsLeft
<1>2. CASE Finish(p) \/ Leave(p, "crashed")
  <2>1. PartsLeft(p)' = 0
    BY <1>0, <1>2 DEF Finish, Leave, PartsLeft
  <2> QED BY <1>1, <2>1, PartLeft
<1>3. CASE /\ Len(reading[p].shown) + 1 <= reading[p].total /\ UNCHANGED pc
           /\ Len(reading[p].shown) + 1 <= Len(bmc.list)
           /\ reading' = [reading EXCEPT ![p].shown =
                                  Append(@, bmc.list[Len(reading[p].shown) + 1])]
  <2> DEFINE n == Len(reading[p].shown)
  <2>1. n \in Nat /\ bmc.list[n + 1] \in Entry
    BY <1>0, <1>3
  <2>2. Len(reading'[p].shown) = n + 1 /\ reading'[p].total = reading[p].total
    BY <1>0, <1>3, <2>1
  <2>3. PartsLeft(p)' = 1 /\ ItemsLeft(p)' = reading[p].total - (n + 1)
    BY <1>1, <1>3, <2>2 DEF PartsLeft, ItemsLeft
  <2>4. ItemsLeft(p) = reading[p].total - n
    BY <1>1 DEF ItemsLeft
  <2> QED BY <1>0, <1>1, <1>3, <2>1, <2>3, <2>4 DEF FewerLeft, Fewer
<1> QED BY <1>2, <1>3 DEF GetNext, Succeed

\* Every other step leads on to a later part.
LEMMA StepHasLess ==
  ASSUME Shape, NEW p \in Procs, Step(p)
  PROVE  FewerLeft(p)
<1>0. pc \in [Procs -> PC]
  BY DEF Shape, TypeOK, PC
<1>1. \A where : Leave(p, where) => pc'[p] = where
  BY <1>0 DEF Leave
<1>2. \A where, place : Goto(p, where, place) => pc'[p] = where
  BY <1>0 DEF Goto
<1>3. Finish(p) => pc'[p] = "done"
  BY <1>0 DEF Finish, Leave
<1>4. SUFFICES ASSUME ~(p \in Setters /\ (CheckElement(p) \/ CallElement(p))),
                      ~(p \in Getters /\ GetNext(p))
               PROVE  PartsLeft(p)' < PartsLeft(p)
  BY ElementLeft, EntryLeft, PartLeft
<1> USE DEF PartsLeft
<1>5. CASE AskVendor(p)
  BY <1>1, <1>3, <1>5 DEF AskVendor
<1>6. CASE Connect(p)
  BY <1>1, <1>3, <1>6 DEF Connect, FirstStep
<1>7. CASE ValidateSubcommandOptions(p)
  BY <1>2, <1>3, <1>7 DEF ValidateSubcommandOptions, Refuse
<1>8. CASE ToggleIpmiWhitelist(p)
  BY <1>2, <1>3, <1>8 DEF ToggleIpmiWhitelist, Exec
<1>9. CASE HandleWhitelistAction(p)
  BY <1>2, <1>3, <1>9 DEF HandleWhitelistAction, Exec
<1>10. CASE ParseFile(p)
  <2>1. pc'[p] \in {"done", "element"}
    BY <1>2, <1>3, <1>10 DEF ParseFile, Succeed, Refuse
  <2>2. pc[p] = "file"
    BY <1>10 DEF ParseFile
  <2> QED BY <2>1, <2>2
<1>11. CASE RefuseRaw(p) \/ SendRaw(p)
  BY <1>1, <1>3, <1>11 DEF RefuseRaw, SendRaw, Free
<1>12. CASE GetConf(p)
  BY <1>1, <1>3, <1>12 DEF GetConf, Succeed
<1>13. CASE GetFirst(p)
  BY <1>1, <1>3, <1>13 DEF GetFirst, Succeed
<1> QED
  BY <1>4, <1>5, <1>6, <1>7, <1>8, <1>9, <1>10, <1>11, <1>12, <1>13
  DEF Step, Setter, Sender, Getter

\* For any utools, files and lists every command comes nearer to its end with
\* every step it takes, whatever the others do to the list meanwhile.
THEOREM StepsAlwaysRunOut == Spec => StepsRunOut
<1>1. Shape => [\A p \in Procs : Step(p) => FewerLeft(p)]_vars
  BY StepHasLess
<1> QED BY <1>1, ShapeAlways, PTL DEF Spec, StepsRunOut
=============================================================================
