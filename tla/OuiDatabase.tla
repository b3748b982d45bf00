------------------------------ MODULE OuiDatabase ------------------------------
(* ndp/discovery/oui.py: the vendors of MAC prefixes, from arp-scan's table, the  *)
(* bundled table and what has been learned.  The learned entries are a file that  *)
(* is written whole, from a table in memory; the service and the command line are *)
(* processes of their own, each with its own table.  Within one, the lock makes a  *)
(* call one step.                                                               *)
EXTENDS Integers, Sequences, FiniteSets

CONSTANTS
    OuiFiles,       \* arp-scan's tables, in the order in which they are read
    Bundled,        \* ndp/data/oui_bundled.txt
    Macs,           \* MAC addresses; one too short has no prefix
    Prefix,         \* MAC address -> prefix, "" for none
    Vendors,        \* what arp-scan may say of a host, the empty word included
    MaxCalls        \* bound on the calls that change something

ASSUME OuiAssumption == MaxCalls \in Nat /\ Prefix \in [Macs -> STRING]

Service == "service"
Processes == {Service, "cli"}
Sources == {"arp-scan", "ip-neigh"}

VARIABLES
    learnedFile,    \* oui_learned.json: its entries, or Unreadable
    learned,        \* per process: _learned_map, or NotLoaded
    noted,          \* history: what the service has last recorded, by prefix
    unsaved,        \* history: the file is not what the service wrote last
    calls

ouiVars == <<learnedFile, learned, noted, unsaved, calls>>

-------------------------------------------------------------------------------
(* Tables.                                                                      *)

Entry0 == [vendor |-> "", source |-> ""]
NotLoaded == [p \in {"not loaded"} |-> Entry0]
Unreadable == [p \in {"unreadable"} |-> Entry0]
EmptyTable == [p \in {} |-> Entry0]

\* One table laid over another.
Over(upper, lower) ==
    [p \in DOMAIN upper \cup DOMAIN lower |->
        IF p \in DOMAIN upper THEN upper[p] ELSE lower[p]]

\* A line without a tab, or a comment, is none of the table's.
ParseOuiFile(lines, source) ==
    LET entries == {i \in DOMAIN lines : lines[i].tab}
    IN [p \in {lines[i].prefix : i \in entries} |->
           [vendor |-> lines[CHOOSE i \in entries :
                                 /\ lines[i].prefix = p
                                 /\ \A j \in entries : lines[j].prefix = p => j <= i].vendor,
            source |-> source]]

\* Of several of arp-scan's tables the later one counts.
SystemTable ==
    LET Upto[n \in 0..Len(OuiFiles)] ==
            IF n = 0 THEN EmptyTable
            ELSE Over(ParseOuiFile(OuiFiles[n], "system"), Upto[n - 1])
    IN Upto[Len(OuiFiles)]

BundledTable == ParseOuiFile(Bundled, "bundled")

\* A file that cannot be read is one without entries.
LoadLearned == IF learnedFile = Unreadable THEN EmptyTable ELSE learnedFile

\* The table a call of p works on: it is loaded by the first one.
EnsureLoaded(p) == IF learned[p] = NotLoaded THEN LoadLearned ELSE learned[p]

\* lookup_vendor_source, and the table of the page, built by layers.
LookupIn(table, prefix) ==
    IF prefix \in DOMAIN table THEN table[prefix]
    ELSE IF prefix \in DOMAIN SystemTable THEN SystemTable[prefix]
    ELSE IF prefix \in DOMAIN BundledTable THEN BundledTable[prefix]
    ELSE Entry0

OuiTable(table) == Over(table, Over(SystemTable, BundledTable))

Snapshot(table) ==
    [system |-> Cardinality(DOMAIN SystemTable),
     bundled |-> Cardinality(DOMAIN BundledTable),
     learned |-> Cardinality(DOMAIN table),
     total |-> Cardinality(DOMAIN SystemTable \cup DOMAIN BundledTable \cup DOMAIN table)]

-------------------------------------------------------------------------------
(* Calls.                                                                       *)

OuiInit ==
    /\ learnedFile \in {EmptyTable, Unreadable}
    /\ learned = [p \in Processes |-> NotLoaded]
    /\ noted = EmptyTable
    /\ unsaved = FALSE
    /\ calls = 0

Call == calls < MaxCalls /\ calls' = calls + 1

\* What _save_learned writes.  The mutant writes the entry that is new.
NewEntryOnly(old, new) ==
    [q \in {q \in DOMAIN new : q \notin DOMAIN old \/ new[q] # old[q]} |-> new[q]]
Payload(old, new) == new

\* write_text may fail; the entry then stays in memory alone.  A failure after the
\* file has been opened leaves it empty.
SaveLearned(p, old, new) ==
    \/ /\ learnedFile' = Payload(old, new)
       /\ unsaved' = (p # Service)
    \/ /\ learnedFile' \in {learnedFile, Unreadable}
       /\ unsaved' = TRUE

\* What is left of the service's entries when it has to load the file first.
Remembered == IF learned[Service] = NotLoaded /\ unsaved THEN EmptyTable ELSE noted

\* A host of a scan: nothing is recorded without a prefix or a vendor, or twice.
RecordVendor(p, mac, vendor, source) ==
    LET old == EnsureLoaded(p)
        prefix == Prefix[mac]
        entry == [vendor |-> vendor, source |-> source]
        new == Over([q \in {prefix} |-> entry], old)
    IN /\ Call
       /\ prefix # "" /\ vendor # ""
       /\ learned' = [learned EXCEPT ![p] = new]
       /\ IF new = old THEN UNCHANGED <<learnedFile, unsaved>> ELSE SaveLearned(p, old, new)
       /\ noted' = IF p = Service THEN Over([q \in {prefix} |-> entry], Remembered) ELSE noted

\* arp-scan names the vendor or leaves it to the lookup; what is looked up is then
\* recorded as well.
RecordFromScan ==
    \E p \in Processes, mac \in Macs, said \in Vendors, source \in Sources :
        LET vendor == IF said = "" \/ source = "ip-neigh"
                      THEN LookupIn(EnsureLoaded(p), Prefix[mac]).vendor ELSE said
        IN RecordVendor(p, mac, vendor, source)

\* The file is read again: what was never saved is gone.
Forget ==
    /\ noted' = IF unsaved THEN EmptyTable ELSE noted
    /\ UNCHANGED <<learnedFile, unsaved>>

Reload ==
    /\ Call
    /\ learned' = [learned EXCEPT ![Service] = LoadLearned]
    /\ Forget

Restart ==
    /\ Call
    /\ \E p \in Processes :
          /\ learned' = [learned EXCEPT ![p] = NotLoaded]
          /\ IF p = Service THEN Forget ELSE UNCHANGED <<learnedFile, noted, unsaved>>

OuiNext == RecordFromScan \/ Reload \/ Restart
OuiSpec == OuiInit /\ [][OuiNext]_ouiVars

-------------------------------------------------------------------------------
(* Properties.                                                                  *)

OuiTypeOK ==
    /\ DOMAIN learned = Processes
    /\ \A p \in Processes : \A q \in DOMAIN EnsureLoaded(p) :
           EnsureLoaded(p)[q].source \in Sources /\ EnsureLoaded(p)[q].vendor # ""
    /\ calls \in 0..MaxCalls

\* What the service has learned last of a prefix is what it answers, over any other
\* table and whatever is reloaded or restarted, but for entries that could not be
\* saved, or that another process has overwritten, and only from the next reload on.
\* The table and the counts of the page agree with the single lookups
\* (oui.py:64-94, 105-157, 181-224).
LearnedIsKept ==
    LET table == EnsureLoaded(Service)
    IN /\ (learned[Service] # NotLoaded \/ ~unsaved) =>
              \A prefix \in DOMAIN noted : LookupIn(table, prefix) = noted[prefix]
       /\ \A prefix \in DOMAIN OuiTable(table) :
              OuiTable(table)[prefix] = LookupIn(table, prefix)
       /\ Snapshot(table).total = Cardinality(DOMAIN OuiTable(table))

===============================================================================
