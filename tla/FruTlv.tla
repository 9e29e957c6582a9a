-------------------------------- MODULE FruTlv --------------------------------
(***************************************************************************)
(* The FRU EEPROM in ONIE's TLV format, and the parser of FruAdapter       *)
(* (fru_adapter.cpp).                                                      *)
(*                                                                         *)
(* An EEPROM file is given by what its first eight bytes are, the length   *)
(* in bytes 9 and 10, the TLVs its writer put behind it, and how many of   *)
(* their bytes the file holds: [header, totalLen, tlvs, kept].  The length *)
(* need not agree with the TLVs.                                           *)
(*                                                                         *)
(* A definition whose name ends in _ is a faulty variant of the one after  *)
(* it: the property that notices the fault is named with it.               *)
(***************************************************************************)
EXTENDS Naturals, Sequences, SequencesExt, TLC

CRC32 == 254
HeaderSize == 11

(* The type that sets a field; other types are skipped. *)
TypeOf == [productName |-> 33, partNumber |-> 34, serialNumber |-> 35,
           manufactureDate |-> 37, hardwareVersion |-> 38, manufacturer |-> 43,
           model |-> 46]

(* Bytes as the text of a property. *)
Text(bytes) == ToString(bytes)

Assign(type, value) == [f \in {f \in DOMAIN TypeOf : TypeOf[f] = type} |-> Text(value)]

(* Fields that are assigned, and assigned again later. *)
Overwrite(fields, later) ==
  [f \in DOMAIN fields \cup DOMAIN later |-> IF f \in DOMAIN later THEN later[f] ELSE fields[f]]

(* What the file holds behind the header. *)
Encode(tlvs) ==
  FlattenSeq([i \in DOMAIN tlvs |-> <<tlvs[i].type, Len(tlvs[i].value)>> \o tlvs[i].value])

Body(eeprom) == SubSeq(Encode(eeprom.tlvs), 1, eeprom.kept)

Byte == 0 .. 255
TwoBytes == {n \in Nat : n < 256 * 256}
IsEeprom(eeprom) ==
  /\ eeprom.tlvs \in Seq([type : Byte, value : Seq(Byte)])
  /\ \A i \in DOMAIN eeprom.tlvs : Len(eeprom.tlvs[i].value) \in Byte
  /\ eeprom.kept \in 0 .. Len(Encode(eeprom.tlvs))
  /\ eeprom.totalLen \in TwoBytes

-----------------------------------------------------------------------------
PastEndOf_(offset, size) == offset >= size   (* FruAsProgrammed *)
PastEndOf(offset, size) == offset > size

Size(eeprom) == HeaderSize + Len(Body(eeprom))
Data(eeprom, offset) == Body(eeprom)[offset - HeaderSize + 1]
EndOf(eeprom, offset) == offset + 2 + Data(eeprom, offset + 1)

(* Where the loop of parseTlv() ends, and what a TLV that it takes assigns. *)
Stops(eeprom, offset) ==
  \/ offset >= Size(eeprom)
  \/ offset >= HeaderSize + eeprom.totalLen
  \/ PastEndOf(offset + 2, Size(eeprom))
  \/ PastEndOf(EndOf(eeprom, offset), Size(eeprom))
  \/ Data(eeprom, offset) = CRC32

Taken(eeprom, offset) ==
  Assign(Data(eeprom, offset),
         SubSeq(Body(eeprom), offset + 2 - HeaderSize + 1, EndOf(eeprom, offset) - HeaderSize))

(* parseTlv(): loop(eeprom)[offset] is what is assigned from there on; a later
   TLV overwrites an earlier one of its type. *)
loop(eeprom) ==
  LET from[offset \in HeaderSize .. Size(eeprom)] ==
        IF Stops(eeprom, offset) THEN <<>>
        ELSE Overwrite(Taken(eeprom, offset), from[EndOf(eeprom, offset)])
  IN from

parseTlv(eeprom) == loop(eeprom)[HeaderSize]

(* readEeprom(): a file that opens, has a header and begins with "TlvInfo". *)
Readable(eeprom) == eeprom.header = "TlvInfo"

(* scanAndLoad(): the first path that can be read. *)
scanAndLoad(paths) ==
  LET found == SelectInSeq(paths, Readable)
  IN IF found = 0 THEN <<>> ELSE parseTlv(paths[found])

-----------------------------------------------------------------------------
(***************************************************************************)
(* The reference, TLV by TLV: one counts if it starts within totalLen and  *)
(* ends within the file, and no checksum comes before it; the last one of  *)
(* a type has the value.                                                   *)
(***************************************************************************)
Counts(eeprom, i) ==
  /\ Len(Encode(SubSeq(eeprom.tlvs, 1, i - 1))) < eeprom.totalLen
  /\ Len(Encode(SubSeq(eeprom.tlvs, 1, i))) <= eeprom.kept
  /\ \A j \in 1 .. i : eeprom.tlvs[j].type # CRC32

Programmed(eeprom) ==
  LET Places(f) == {i \in DOMAIN eeprom.tlvs :
                      Counts(eeprom, i) /\ eeprom.tlvs[i].type = TypeOf[f]}
      Latest(f) == CHOOSE i \in Places(f) : \A j \in Places(f) : j <= i
  IN [f \in {f \in DOMAIN TypeOf : Places(f) # {}} |-> Text(eeprom.tlvs[Latest(f)].value)]
=============================================================================
