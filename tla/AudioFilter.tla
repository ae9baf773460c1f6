----------------------------- MODULE AudioFilter -----------------------------
(***************************************************************************)
(* The filters of AudioHardware (libaudio/AudioHardware.cpp): its          *)
(* constructor reads AudioFilter.csv, a line at a time, into the tables    *)
(* that msm72xx_enable_postproc() and msm72xx_enable_preproc() give to the *)
(* signal processor.  A table is the set of its parts that some line has   *)
(* stored in full.  The numbers are left out, a flag's being zero apart,   *)
(* and so is the sound that is played: AudioRouting has its mask.          *)
(*                                                                         *)
(* A multi-band record says how many bands and how large a buffer follow,  *)
(* and nothing compares that with the table's size: overrun holds the      *)
(* tables that another record's numbers were stored over.  One that goes   *)
(* on past the equaliser's tables, into the flags, is left out.            *)
(***************************************************************************)
EXTENDS Integers, Sequences

CONSTANTS
    Lines,      \* the lines a file is made of
    MaxLines    \* bound: lines of a file

PostKinds == {"rx_iir", "adrc", "eq", "mbadrc"}    \* codes A, B, C and D
PreKinds == {"tx_iir", "agc", "ns"}                \* codes E, F and G
RecordKinds == PostKinds \cup PreKinds
Unknown == -22                                     \* -EINVAL

(* The slots of the tables: codes 1 to 3 name a device, 1 to 9 a rate.     *)
DeviceIds == 0..2
SampleIndices == 0..8
Slots(kind) == IF kind \in PostKinds THEN DeviceIds ELSE SampleIndices

(* What each record stores, in the order of its fields; "bands" may be     *)
(* more than the number of bands, and "params" is the rest of the table.   *)
RxIirFields == <<"params", "flag", "bands">>
AdrcFields == <<"flag", "params">>
EqFields == <<"flag", "params">>
MbAdrcFields == <<"params", "flag">>
TxIirFields == <<"params", "flag", "bands">>
AgcFields == <<"params", "flag">>
NsFields == <<"params", "flag">>
Fields ==
    [rx_iir |-> RxIirFields, adrc |-> AdrcFields, eq |-> EqFields, mbadrc |-> MbAdrcFields,
     tx_iir |-> TxIirFields, agc |-> AgcFields, ns |-> NsFields]
Parts(kind) == {Fields[kind][i] : i \in DOMAIN Fields[kind]}

(* What lies behind the tables of the multi-band filter.                   *)
After ==
    <<<<"mbadrc", 0>>, <<"mbadrc", 1>>, <<"mbadrc", 2>>, <<"eq", 0>>, <<"eq", 1>>, <<"eq", 2>>>>

(* A line: the record's kind, or "other"; the device or the sampling rate  *)
(* it names; how many of its fields it has, and how many more follow;      *)
(* whether its flag is not zero; and how many tables after its own the     *)
(* numbers it announces, and has, reach.                                   *)
ASSUME LinesAssumption ==
    /\ Lines \subseteq [kind : RecordKinds \cup {"other"}, code : SampleIndices \cup {Unknown},
                        fields : 0..3, more : 0..3, flag : BOOLEAN, over : 0..5]
    /\ MaxLines \in Nat

VARIABLES
    parsing,             \* "file", "volume", then "done"
    lines,               \* lines read so far
    left,                \* fields strtok() has left of the last line it was given
    library,             \* libaudioeq.so can be opened
    table, flag,         \* of each kind, by device or by sampling rate
    enable_preproc_mask,
    overrun,             \* the tables that hold another record's numbers
    audpp_filter_inited,
    AUTO_VOLUME_ENABLED,
    recording,
    preproc              \* the tables the signal processor applies to recorded sound

tables == <<table, flag, enable_preproc_mask, overrun>>
filterVars == <<parsing, lines, left, library, tables, audpp_filter_inited,
                AUTO_VOLUME_ENABLED, recording, preproc>>

FilterInit ==
    /\ parsing = "file" /\ lines = 0 /\ left = 0 /\ library \in BOOLEAN
    /\ table = [k \in RecordKinds |-> [i \in Slots(k) |-> {}]]
    /\ flag = [k \in RecordKinds |-> [i \in DeviceIds |-> FALSE]]
    /\ enable_preproc_mask = [i \in SampleIndices |-> {}]
    /\ overrun = {}
    /\ audpp_filter_inited = FALSE /\ AUTO_VOLUME_ENABLED = TRUE
    /\ recording = FALSE /\ preproc = {}
-----------------------------------------------------------------------------
(* get_sample_index() knows the rate, but what is kept is the comparison   *)
(* of its result with -EINVAL: 0, or the error.                            *)
samp_index(line) == IF line.code = Unknown THEN Unknown ELSE 0

(* Where a record goes.  A line of no kind, and one of the playback kinds  *)
(* for no device, is none.                                                 *)
Slot(line) == IF line.kind \in PreKinds THEN samp_index(line) ELSE line.code
Ignored(line) ==
    \/ line.kind = "other"
    \/ line.kind \in PostKinds /\ line.code \notin DeviceIds

(* strtok() is given the line, but for the noise suppressor, which goes on *)
(* with the one before.  The equaliser needs its library after the flag.   *)
FieldsRead(line) ==
    LET has == IF line.kind = "ns" THEN left ELSE line.fields
        n == Len(Fields[line.kind])
    IN  IF line.kind = "eq" /\ ~library /\ has > 1 THEN 1
        ELSE IF has > n THEN n ELSE has
Complete(line) == FieldsRead(line) = Len(Fields[line.kind])
Kept(line) == {Fields[line.kind][i] : i \in 1..FieldsRead(line)}
Broken(line) ==
    IF Complete(line) \/ (line.kind = "eq" /\ FieldsRead(line) = 1 /\ ~library) THEN {}
    ELSE {Fields[line.kind][FieldsRead(line) + 1]}

(* The tables a record's bands and buffer go over.                         *)
RunOver(line) ==
    IF line.kind # "mbadrc" THEN {}
    ELSE {After[i] : i \in {j \in 1..6 : line.code + 1 < j /\ j <= line.code + 1 + line.over}}

(* The table a record is for loses the part it breaks off in, and gains    *)
(* those it has in full.                                                   *)
TableAfter(line, k, i) ==
    IF <<k, i>> \in RunOver(line) THEN table[k][i] \ {"params"}
    ELSE IF k = line.kind /\ i = Slot(line) THEN (table[k][i] \ Broken(line)) \cup Kept(line)
    ELSE table[k][i]

(* The flag of a record of the recording kinds is that of device 0, and    *)
(* the mask only gains.                                                    *)
store(line) ==
    LET k == line.kind
        device == IF k \in PreKinds THEN 0 ELSE line.code
    IN  /\ table' = [kind \in RecordKinds |-> [i \in Slots(kind) |-> TableAfter(line, kind, i)]]
        /\ overrun' = (overrun \cup RunOver(line)) \
                          (IF Complete(line) THEN {<<k, Slot(line)>>} ELSE {})
        /\ flag' = IF "flag" \in Kept(line) THEN [flag EXCEPT ![k][device] = line.flag]
                   ELSE flag
        /\ enable_preproc_mask' =
               IF k \in PreKinds /\ Complete(line) /\ line.flag
               THEN [enable_preproc_mask EXCEPT ![Slot(line)] = @ \cup {k}]
               ELSE enable_preproc_mask
        /\ left' = IF ~Complete(line) THEN 0
                   ELSE IF k = "ns" THEN left - FieldsRead(line) ELSE line.more

(* Mutants.  An operator whose name ends in _X<n> is a changed form of the *)
(* definition it is named for.                                             *)
malformed_X1(line) ==              \* a line that is cut is dropped, and the file read on
    line.kind \in PreKinds /\ Slot(line) = Unknown

(* check_and_set_audpp_parameters() returns an error.                      *)
malformed(line) ==
    /\ ~Ignored(line)
    /\ (line.kind \in PreKinds /\ Slot(line) = Unknown) \/ ~Complete(line)

check_and_set_audpp_parameters(line) ==
    IF Ignored(line) \/ Slot(line) = Unknown THEN UNCHANGED <<tables, left>> ELSE store(line)

(* One turn of the loop of get_audpp_filter().  An error ends the reading; *)
(* what was stored stays.                                                  *)
readLine(line) ==
    /\ parsing = "file" /\ lines < MaxLines
    /\ lines' = lines + 1
    /\ check_and_set_audpp_parameters(line)
    /\ parsing' = IF malformed(line) THEN "volume" ELSE "file"
    /\ UNCHANGED <<library, audpp_filter_inited, AUTO_VOLUME_ENABLED, recording, preproc>>

(* The end of the file, or a last line without its end, which is not read. *)
endOfFile ==
    /\ parsing = "file"
    /\ audpp_filter_inited' = TRUE
    /\ parsing' = "volume"
    /\ UNCHANGED <<lines, left, library, tables, AUTO_VOLUME_ENABLED, recording, preproc>>

(* The file cannot be opened, examined or mapped.                          *)
noFile ==
    /\ parsing = "file" /\ lines = 0
    /\ parsing' = "volume"
    /\ UNCHANGED <<lines, left, library, tables, audpp_filter_inited, AUTO_VOLUME_ENABLED,
                   recording, preproc>>

(* AutoVolumeControl.txt turns the automatic volume off if it begins with  *)
(* a 0; no file, or any other, leaves it on.                               *)
get_auto_volume_config(first) ==
    /\ parsing = "volume"
    /\ AUTO_VOLUME_ENABLED' = (first # "0")
    /\ parsing' = "done"
    /\ UNCHANGED <<lines, left, library, tables, audpp_filter_inited, recording, preproc>>
-----------------------------------------------------------------------------
(* One record stream at a time is opened for a sampling rate, read and put *)
(* on standby.  If the filters were read and the control device opens, the *)
(* driver is given the tables the mask names and then the mask, which it   *)
(* may refuse; a table that is refused is only logged.                     *)
msm72xx_enable_preproc(applied) ==
    /\ parsing = "done"
    /\ \/ audpp_filter_inited /\ preproc' = applied
       \/ UNCHANGED preproc
    /\ UNCHANGED <<parsing, lines, left, library, tables, audpp_filter_inited,
                   AUTO_VOLUME_ENABLED>>

read(audpre_index) ==
    /\ ~recording /\ recording' = TRUE
    /\ msm72xx_enable_preproc({<<k, audpre_index>> : k \in enable_preproc_mask[audpre_index]})

standby ==
    /\ recording /\ recording' = FALSE
    /\ msm72xx_enable_preproc({})

FilterNext ==
    \/ \E line \in Lines : readLine(line)
    \/ endOfFile \/ noFile
    \/ \E first \in {"none", "0", "1"} : get_auto_volume_config(first)
    \/ \E i \in SampleIndices : read(i)
    \/ standby

FilterSpec == FilterInit /\ [][FilterNext]_filterVars
-----------------------------------------------------------------------------
Whole(kind, i) == Parts(kind) \subseteq table[kind][i]

(* "Check acoustic filters parsing status" (843): no filter that can be    *)
(* switched on, for sound that is played or recorded, has a table of which *)
(* a part is missing or half overwritten, wherever the file is cut, in     *)
(* whatever order its records come and whether or not the equaliser's      *)
(* library is there; but for the tables another record's numbers were      *)
(* stored over and no record of their own has been read since.             *)
FiltersWhole ==
    /\ audpp_filter_inited
       => \A k \in PostKinds : \A d \in DeviceIds :
              flag[k][d] => Whole(k, d) \/ <<k, d>> \in overrun
    /\ \A applied \in preproc : Whole(applied[1], applied[2])
=============================================================================
