--------------------------- MODULE MCSaveOptions ---------------------------
(* Two threads and three calls: a setter that is overtaken between any two *)
(* of its reads and writes by another setter, a getter or save_as(), and a *)
(* call after both that would notice.                                      *)
EXTENDS SaveOptions, OptionTables, FiniteSets

MCBits == 0..7

(* Red and Blue have the byte of Generation II; Ruby, Sapphire and Emerald *)
(* differ from FireRed in one name. *)
MCSaves == {"Yellow", "Gen2", "FRLG"}

(* Options that are dealt with like another one that is kept, in a byte for *)
(* themselves or in company of the same kind, are left alone. *)
MCOptions ==
  ({"Yellow", "Gen2"} \X {"sound", "battleStyle", "battleScene"})
    \cup ({"Gen2", "FRLG"} \X {"textSpeed", "frame"})
    \cup ({"FRLG"} \X {"sound", "buttonMode"})

MCSaveOf == [o \in MCOptions |-> o[1]]
MCByteOf == [o \in MCOptions |-> <<o[1], Row(o).byte>>]
MCBytes == {<<o[1], Row(o).byte>> : o \in MCOptions}
MCMask == [o \in MCOptions |-> Row(o).mask]
MCLocked == {o \in MCOptions : Row(o).locked}
MCInTwo == {o \in MCOptions : Row(o).inTwo}
MCCode == [o \in MCOptions |-> CodeOf(Row(o))]
MCReads == [o \in MCOptions |-> ReadsOf(Row(o))]
MCTells == [o \in MCOptions |-> TellsOf(o, DOMAIN CodeOf(Row(o)))]

(* At most two good values of an option, and in one of each save's a bad one. *)
Two(names) == {CHOOSE n \in names : TRUE,
               CHOOSE n \in names : Cardinality(names) > 1 => n # CHOOSE m \in names : TRUE}
Bad == {<<s, "sound">> : s \in MCSaves} \cup {<<"FRLG", "textSpeed">>}
MCTried == [o \in MCOptions |-> Two(DOMAIN CodeOf(Row(o))) \cup IF o \in Bad THEN {"Fast"} ELSE {}]

(* A save with every bit set: some options have bits no value has. *)
MCStarts == { [b \in MCBytes |-> MCBits] }
=============================================================================
