----------------------------- MODULE ScsiVerify -----------------------------
(***************************************************************************)
(* One call of scsi_verify(): the VERIFY(10) command that is built for a   *)
(* range of sectors, the position the request gets in the disk's queue     *)
(* (sg_kern_io() decodes the command again), and what the caller is told   *)
(* when the command comes back, decoded from the status and the sense data.*)
(*                                                                         *)
(* Sense data are a record of the fields the decoder reads; "len" of its   *)
(* bytes were transferred, and a field that lies behind them is read as 0  *)
(* (the buffer is zeroed first).                                           *)
(***************************************************************************)
EXTENDS Integers, FiniteSetsExt

CONSTANTS
    Byte,   \* number of values of a byte
    Lbas,   \* first sectors that are asked for
    Counts  \* numbers of sectors that are asked for

ASSUME ByteAssumption == Byte \in Nat /\ Byte > 1
ASSUME AskAssumption ==
    Lbas \subseteq Nat /\ Counts \subseteq 0..(Byte * Byte - 1)

(* Return values: the categories SG_LIB_CAT_... *)
NOT_READY == 2
MEDIUM_HARD == 3
ILLEGAL_REQ == 5
UNIT_ATTENTION == 6
INVALID_OP == 9
ABORTED_COMMAND == 11
MEDIUM_HARD_WITH_INFO == 18
NO_SENSE == 20
RECOVERED == 21
CAT_SENSE == 98
CAT_OTHER == 99

SENSE_BUFF_LEN == 32
ENOMEM == 12

\* Sense data: the format, the sense key, the code and its qualifier (0x20, 0:
\* invalid opcode), the additional length, whether the information field is
\* there and valid, and, in descriptor format, how many bytes of other
\* descriptors come before it. "none" has no response code 0x7x; "reserved" has
\* one of 0x74 to 0x7f, for which no format is defined: its key, code and
\* qualifier are what the bytes hold where a descriptor format has them.
Senses ==
    [len: {0, 2, 3, 7, 8, 13, 18, 20, SENSE_BUFF_LEN},
     format: {"fixed", "descriptor", "reserved", "none"},
     key: {0, 1, 2, 3, 4, 5, 6, 8, 10, 11}, asc: {0, 32}, ascq: {0, 1},
     add: {0, 10, 12, 24}, info: BOOLEAN, lead: {0, 12}]

Nothing == [len |-> 0, format |-> "none", key |-> 0, asc |-> 0, ascq |-> 0,
            add |-> 0, info |-> FALSE, lead |-> 0]

\* The ways a request ends: the error of the ioctl, the status of the host
\* adapter, of the driver (8 is "sense data") and of the drive (2 is "check
\* condition", 34 "command terminated", 8 "busy"), and the sense data.
Answers ==
    [os: {0, 1, 2, 5}, host: {0, 1}, driver: {0, 6, 8}, status: {0, 2, 8, 34},
     sense: {Nothing}]
    \cup [os: {0}, host: {0}, driver: {0, 8}, status: {0, 2, 34},
          sense: Senses]

VARIABLES
    lba, count,  \* arguments of scsi_verify()
    cdb,         \* the sector and length bytes of vCmdBlk
    sector,      \* rq->__sector and the sectors of rq->__data_len
    answer,      \* what came back
    result,      \* what scsi_verify() returns
    pc

vars == <<lba, count, cdb, sector, answer, result, pc>>

Init ==
    /\ lba = 0 /\ count = 0
    /\ cdb = <<>> /\ sector = <<>> /\ answer = <<>> /\ result = -1
    /\ pc = "idle"

\* scsi_verify() is called; what the call before it left is gone.
Call ==
    /\ pc \in {"idle", "done"}
    /\ lba' \in Lbas /\ count' \in Counts
    /\ answer' = <<>> /\ result' = -1
    /\ pc' = "build"
    /\ UNCHANGED <<cdb, sector>>

\* What the second, third and fourth byte of a number count, and what would be
\* the next.
Byte2 == Byte * Byte
Byte3 == Byte2 * Byte
Byte4 == Byte3 * Byte

\* Mutated form: the bits above the byte are not masked.
ByteOfUnmasked(x, unit) == x \div unit

\* The byte of x that counts the given units: a shift and a mask.
ByteOf(x, unit) == (x \div unit) % Byte

\* Mutated form: the bytes of the length are swapped.
CommandSwapped ==
    <<ByteOf(lba, Byte3), ByteOf(lba, Byte2), ByteOf(lba, Byte), ByteOf(lba, 1),
      ByteOf(count, 1), ByteOf(count, Byte)>>

\* sg_ll_verify10(): bytes 2 to 5, 7 and 8 of the command.
Command ==
    <<ByteOf(lba, Byte3), ByteOf(lba, Byte2), ByteOf(lba, Byte), ByteOf(lba, 1),
      ByteOf(count, Byte), ByteOf(count, 1)>>

Build ==
    /\ pc = "build"
    /\ cdb' = Command
    /\ pc' = "queue"
    /\ UNCHANGED <<lba, count, sector, answer, result>>

\* sg_kern_io(): the bio and the request get the range of the command.
Queue ==
    /\ pc = "queue"
    /\ sector' = <<cdb[1] * Byte3 + cdb[2] * Byte2 + cdb[3] * Byte + cdb[4],
                   cdb[5] * Byte + cdb[6]>>
    /\ pc' = "sent"
    /\ UNCHANGED <<lba, count, cdb, answer, result>>

-----------------------------------------------------------------------------
(* Decoding of the sense data.                                              *)

\* Mutated form: the additional length is taken for the whole length.
ReadableAdditional(s) ==
    IF s.format # "fixed" \/ s.len <= 7 THEN s.len
    ELSE Min({s.len, s.add})

\* sg_scsi_normalize_sense(): the key, code and qualifier that are there. All
\* that is not in fixed format is taken for descriptor format.
Readable(s) ==
    IF s.format # "fixed" \/ s.len <= 7 THEN s.len
    ELSE Min({s.len, s.add + 8})

Key(s)  == IF s.len > (IF s.format = "fixed" THEN 2 ELSE 1) THEN s.key ELSE 0
Asc(s)  == IF Readable(s) > (IF s.format = "fixed" THEN 12 ELSE 2)
           THEN s.asc ELSE 0
Ascq(s) == IF Readable(s) > (IF s.format = "fixed" THEN 13 ELSE 3)
           THEN s.ascq ELSE 0

\* Mutated form: the length of the sense data is not tested.
SenseCategoryOfAnyLength(s) == IF Key(s) = 0 THEN NO_SENSE ELSE CAT_SENSE

\* sg_err_category_sense()
SenseCategory(s) ==
    IF s.len <= 2 \/ s.format = "none" THEN CAT_SENSE
    ELSE CASE Key(s) = 0 -> NO_SENSE
           [] Key(s) = 1 -> RECOVERED
           [] Key(s) = 2 -> NOT_READY
           [] Key(s) \in {3, 4, 8} -> MEDIUM_HARD
           [] Key(s) = 5 -> IF Asc(s) = 32 /\ Ascq(s) = 0
                            THEN INVALID_OP ELSE ILLEGAL_REQ
           [] Key(s) = 6 -> UNIT_ATTENTION
           [] Key(s) = 11 -> ABORTED_COMMAND
           [] OTHER -> CAT_SENSE

\* sg_scsi_sense_desc_find(): the information descriptor, of 12 bytes, starts
\* within the descriptors that were transferred.
FindsInfo(s) ==
    LET there == Min({s.add, s.len - 8})
    IN  /\ s.len >= 8 /\ s.add # 0
        /\ s.lead < there

\* sg_get_sense_info_fld(): is there valid information? Of a descriptor that is
\* cut off before its length or its valid bit, these are read as 0.
ValidInfo(s) ==
    /\ s.len >= 7 /\ s.info /\ s.format # "reserved"
    /\ s.format = "descriptor" => FindsInfo(s) /\ s.lead + 8 + 3 <= s.len

\* The switch of sg_ll_verify10() over the category of the sense data.
SenseResult(s) ==
    LET cat == SenseCategory(s)
    IN  CASE cat \in {RECOVERED, NO_SENSE} -> 0
          [] cat = MEDIUM_HARD -> IF ValidInfo(s) THEN MEDIUM_HARD_WITH_INFO
                                  ELSE MEDIUM_HARD
          [] cat = CAT_SENSE -> -1
          [] OTHER -> cat

\* get_scsi_pt_result_category(), sg_cmds_process_resp() and sg_ll_verify10():
\* 0, a category, or -1.
verify10(r) ==
    IF r.os # 0 \/ r.host # 0 \/ r.driver \notin {0, 8} THEN -1
    ELSE IF r.driver = 8 \/ r.status \in {2, 34} THEN SenseResult(r.sense)
    ELSE IF r.status # 0 THEN -1 ELSE 0

Returned(res) == IF res >= 0 THEN res ELSE CAT_OTHER

\* scsi_verify() returns for the answer r; its arguments are dead.
Return(r) ==
    /\ answer' = r
    /\ result' = Returned(verify10(r))
    /\ lba' = 0 /\ count' = 0 /\ cdb' = <<>> /\ sector' = <<>>
    /\ pc' = "done"

\* The request comes back.
Complete == pc = "sent" /\ \E r \in Answers : Return(r)

\* construct_scsi_pt_obj() finds no memory, and nothing is sent: -1, as for an
\* error of the ioctl.
NoMemory ==
    /\ pc = "queue"
    /\ Return([os |-> ENOMEM, host |-> 0, driver |-> 0, status |-> 0,
               sense |-> Nothing])

Next == Call \/ Build \/ Queue \/ NoMemory \/ Complete

Spec == Init /\ [][Next]_vars

-----------------------------------------------------------------------------
\* The type of every variable; each byte of the command is one.
TypeOK ==
    /\ lba \in Lbas \cup {0} /\ count \in Counts \cup {0}
    /\ pc \in {"idle", "build", "queue", "sent", "done"}
    /\ pc = "queue" => cdb \in [1..6 -> 0..(Byte - 1)]
    /\ result \in {-1, 0, NOT_READY, MEDIUM_HARD, ILLEGAL_REQ, UNIT_ATTENTION,
                   INVALID_OP, ABORTED_COMMAND, MEDIUM_HARD_WITH_INFO,
                   CAT_OTHER}

\* The range the disk's queue sorts the request by is the range that was asked
\* for, as far as four bytes can name it: encoding and decoding agree.
QueueMatchesRequest ==
    pc = "sent" => sector = <<lba % Byte4, count>>

\* The drive (or a layer below) reported a failure: sense data in no defined
\* format come with one.
Failed(r) ==
    \/ r.os # 0 \/ r.host # 0 \/ r.driver = 6
    \/ r.status = 8
    \/ /\ r.status \in {2, 34} \/ r.driver = 8
       /\ r.sense.key \notin {0, 1} \/ r.sense.format \in {"none", "reserved"}

\* The one way a failure is taken for a success: sense data with a reserved
\* response code are decoded as descriptor format, and the byte that is taken
\* for the sense key happens to hold 0 or 1.
Misread(r) ==
    /\ r.os = 0 /\ r.host = 0 /\ r.driver \in {0, 8}
    /\ r.driver = 8 \/ r.status \in {2, 34}
    /\ r.sense.format = "reserved" /\ r.sense.key \in {0, 1}
    /\ r.sense.len > 2

\* A failed request counts as verified if and only if it is misread: however
\* short the sense data are, no failure of a defined format is lost.
NoFalseSuccess ==
    pc = "done" /\ Failed(answer) => (result = 0 <=> Misread(answer))

\* All of the sense data that are decoded were transferred.
Whole(s) ==
    \/ s.format = "fixed" /\ s.len >= 14 /\ s.add >= 6
    \/ /\ s.format = "descriptor" /\ s.len >= 8 + s.add
       /\ s.add >= s.lead + (IF s.info THEN 12 ELSE 0)

\* The result for a sense key, as the comment on sg_ll_verify10() lists them.
Documented(s) ==
    CASE s.key \in {0, 1} -> 0
      [] s.key = 2 -> NOT_READY
      [] s.key \in {3, 4, 8} -> IF s.info THEN MEDIUM_HARD_WITH_INFO
                                ELSE MEDIUM_HARD
      [] s.key = 5 -> IF s.asc = 32 /\ s.ascq = 0 THEN INVALID_OP
                      ELSE ILLEGAL_REQ
      [] s.key = 6 -> UNIT_ATTENTION
      [] s.key = 11 -> ABORTED_COMMAND
      [] OTHER -> CAT_OTHER

\* With whole sense data the result is the documented one, in both defined
\* formats.
ClassifiedAsDocumented ==
    pc = "done" /\ answer.os = 0 /\ answer.host = 0
       /\ \/ answer.driver = 8
          \/ answer.driver = 0 /\ answer.status \in {2, 34}
       /\ Whole(answer.sense)
    => result = Documented(answer.sense)

=============================================================================
