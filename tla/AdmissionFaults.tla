-------------------------- MODULE AdmissionFaults ---------------------------
(***************************************************************************)
(* The faults a carriage raises and clears: admission_failed for each of   *)
(* the two forms of admission, and device_unconfigured with the durable    *)
(* record of the devices refused.  Each action is one whole carriage, by   *)
(* its outcome; ReturnPath has its steps.                                  *)
(***************************************************************************)
EXTENDS Integers, FiniteSets

CONSTANTS
    Sites,              \* devices that may send a carriage
    Routable,           \* those in the routing domain
    MaxUnconfigured,    \* maxUnconfiguredDevices
    RecordResults       \* outcomes of a write of the record

ASSUME FaultsAssumption ==
    /\ Routable \subseteq Sites /\ MaxUnconfigured \in Nat
    /\ RecordResults \subseteq {"ok", "failed", "unsynced"}

VARIABLES
    configured,     \* devices of the configuration this run started with
    unconfigured,   \* q.unconfigured
    overflow,       \* q.unconfiguredOverflow
    record,         \* the record in the directory; no record is an empty one
    possibleRecords,\* what a power loss may leave of it
    raised,         \* the Recorder's active sources
    refused,        \* history: devices refused and not admitted since, see StartAgain
    recordFailed    \* history: whether a write of the record has failed in this run

faultVars == <<configured, unconfigured, overflow, record, possibleRecords, raised,
               refused, recordFailed>>

Empty == [devices |-> {}, overflow |-> FALSE]

FaultsInit ==
    /\ configured \in SUBSET Routable
    /\ unconfigured = {} /\ overflow = FALSE
    /\ record = Empty /\ possibleRecords = {Empty}
    /\ raised = {} /\ refused = {} /\ recordFailed = FALSE

-----------------------------------------------------------------------------
\* writeUnconfiguredLocked: the record becomes what memory holds, an empty one
\* being removed.
WriteUnconfigured(r) ==
    LET new == [devices |-> unconfigured', overflow |-> overflow'] IN
    /\ record' = IF r = "failed" THEN record ELSE new
    /\ possibleRecords' = CASE r = "ok" -> {new}
                            [] r = "unsynced" -> possibleRecords \cup {new}
                            [] r = "failed" -> possibleRecords
    /\ recordFailed' = (recordFailed \/ r # "ok")

NoWrite == UNCHANGED <<record, possibleRecords, recordFailed>>

\* NoteUnconfiguredDevice: the fault is raised, and a device or an overflow not
\* yet noted is noted in memory and then written.
Refuse(d, r) ==
    LET fits == Cardinality(unconfigured) < MaxUnconfigured /\ d \in Routable IN
    /\ d \notin configured
    /\ raised' = raised \cup {"devices"}
    /\ unconfigured' = IF fits THEN unconfigured \cup {d} ELSE unconfigured
    /\ overflow' = (overflow \/ (d \notin unconfigured /\ ~fits))
    /\ IF unconfigured' = unconfigured /\ overflow' = overflow
         THEN NoWrite ELSE WriteUnconfigured(r)
    /\ refused' = refused \cup {d}
    /\ UNCHANGED configured

\* Mutant: the fault is cleared with the first device admitted.
ClearsFirst(left, over) == TRUE

\* The fault is cleared once no device and no overflow is left.
Clears(left, over) == left = {} /\ ~over

\* NoteAdmittedDevice, at the end of an admission that completes.  A record
\* that cannot be written keeps the fault.
NoteAdmitted(d, r, sources) ==
    IF d \in unconfigured
      THEN /\ unconfigured' = unconfigured \ {d} /\ UNCHANGED overflow
           /\ WriteUnconfigured(r)
           /\ raised' = IF r = "ok" /\ Clears(unconfigured', overflow) THEN sources \ {"devices"}
                        ELSE sources
      ELSE /\ raised' = sources
           /\ NoWrite /\ UNCHANGED <<unconfigured, overflow>>

\* A carriage of a configured device, an envelope or not, by how Handle ends:
\* refused by a full share, not stored, its custody not constructed, its
\* acknowledgement not published, its custody not staged, or done.
Handle(d, envelope, outcome, r) ==
    LET sources == CASE outcome = "full" -> raised
                     [] outcome = "failed" -> raised \cup {"queue"}
                     [] outcome = "unacked" -> raised \ {"queue"}
                     [] outcome \in {"unsigned", "unstaged"} -> (raised \ {"queue"}) \cup {"custody"}
                     [] outcome = "done" /\ envelope -> raised \ {"queue", "custody"}
                     [] outcome = "done" /\ ~envelope -> raised \ {"queue"}
    IN
    /\ d \in configured
    /\ outcome \in {"unsigned", "unstaged"} => envelope
    /\ IF outcome = "done" THEN NoteAdmitted(d, r, sources)
       ELSE raised' = sources /\ NoWrite /\ UNCHANGED <<unconfigured, overflow>>
    /\ refused' = IF outcome = "done" THEN refused \ {d} ELSE refused
    /\ UNCHANGED configured

RaisedOnLoad(rec) == IF rec # Empty THEN {"devices"} ELSE {}

\* The gateway starts again, with any configuration, on what the last run or a
\* power loss left; loadUnconfigured restores the record and its fault.  What a
\* failed write kept out of the record is forgotten here and nowhere else.
StartAgain ==
    \E rec \in {record} \cup possibleRecords, devices \in SUBSET Routable:
       /\ record' = rec /\ possibleRecords' = {rec}
       /\ unconfigured' = rec.devices /\ overflow' = rec.overflow
       /\ raised' = RaisedOnLoad(rec)
       /\ configured' = devices
       /\ refused' = IF recordFailed THEN refused \cap rec.devices ELSE refused
       /\ recordFailed' = FALSE

Outcomes == {"full", "failed", "unsigned", "unacked", "unstaged", "done"}

FaultsNext ==
    \/ \E d \in Sites, r \in RecordResults: Refuse(d, r)
    \/ \E d \in Sites, envelope \in BOOLEAN, outcome \in Outcomes, r \in RecordResults:
         Handle(d, envelope, outcome, r)
    \/ StartAgain

FaultsSpec == FaultsInit /\ [][FaultsNext]_faultVars

-----------------------------------------------------------------------------
(* device_unconfigured is active while any device that was refused has not  *)
(* been admitted since, through restarts, power losses and changes of the   *)
(* configuration.  A write of the record that fails costs nothing within    *)
(* its run, though it is not tried again (NoteUnconfiguredDevice).          *)
RefusedIsReported == refused # {} => "devices" \in raised
=============================================================================
