------------------------------ MODULE AllowedHosts ------------------------------
(***************************************************************************)
(* The editable list of extra git hosts: one row of the settings table     *)
(* (internal/store/settings.go), read and replaced by concurrent editors   *)
(* through GET and PUT /api/settings/allowed-hosts                         *)
(* (internal/api/settings.go), and what it lets a scan clone from          *)
(* (internal/source/hosts.go, SanitizeGitURL).  The text of the row is     *)
(* abstracted to the list of hosts it names; the revision, a hash of that  *)
(* text, to the text itself.  The PUT handler is cut between its two store *)
(* calls.  What an editor types is a list of entries between separators:   *)
(* a host name in any case (itself), a URL, nothing, or anything else.     *)
(***************************************************************************)
EXTENDS Naturals, SequencesExt

CONSTANTS
  Hosts,     \* host names, normalized
  Base,      \* the built-in hosts, a sequence
  Editors,   \* clients with the settings form open
  Careful,   \* those that send back the revision they loaded as If-Match
  Typed,     \* what editors may submit: sequences of entries
  Nothing,   \* an entry of white space
  Bad,       \* an entry that is neither a host name nor a URL; no host name
  None       \* no row; nothing loaded yet; an error

Urls == [https : BOOLEAN, user : BOOLEAN, port : BOOLEAN, host : Hosts \cup {Bad}]

Lists == SeqOf(Hosts, Cardinality(Hosts))

(* There are finitely many hosts; what is typed is one kind of entry or another *)
ASSUME HostsAssumption ==
  /\ Careful \subseteq Editors
  /\ IsFiniteSet(Hosts) /\ Base \in Seq(Hosts)
  /\ Typed \subseteq Seq(Hosts \cup Urls \cup {Nothing, Bad})
  /\ Hosts \cap Urls = {} /\ Nothing \notin Hosts \cup Urls /\ Bad \notin Hosts \cup Urls
  /\ None \notin Hosts /\ None \notin Seq(Hosts)

VARIABLES
  setting,   \* the row: None, or the list it holds
  pc,        \* each editor's PUT: "idle", "read" (about to read), "swap"
  seen,      \* the list whose revision the editor holds
  typed,     \* what its PUT has sent
  raw,       \* what its PUT handler read
  answer,    \* how its last PUT ended
  stale      \* the row has been saved since the editor learnt its revision

vars == <<setting, pc, seen, typed, raw, answer, stale>>

(* https, without credentials, on the default port *)
Clean(url) == url.https /\ ~url.user /\ ~url.port

(* Seeded bug: any URL will do *)
NormalizeHost_anyUrl(entry) ==
  IF entry \in Hosts THEN entry
  ELSE IF entry \in Urls /\ entry.host \in Hosts THEN entry.host ELSE None

NormalizeHost(entry) ==
  IF entry \in Hosts THEN entry
  ELSE IF entry \in Urls /\ Clean(entry) /\ entry.host \in Hosts THEN entry.host ELSE None

(* The first of each host is kept, in order *)
Add(list, h) == IF h \in ToSet(list) THEN list ELSE Append(list, h)

MergeAllowedHosts(lists) == FoldLeft(Add, <<>>, FlattenSeq(lists))

(* ParseAllowedHostsCSV: every entry has to be a host *)
Parse(text) ==
  LET Take(list, entry) ==
        IF list = None \/ entry = Nothing THEN list
        ELSE IF NormalizeHost(entry) = None THEN None
        ELSE Add(list, NormalizeHost(entry))
  IN  FoldLeft(Take, <<>>, text)

(* GetSetting: "" when the row is missing *)
Value == IF setting = None THEN <<>> ELSE setting

(* currentAllowedHosts: what a POST is held to *)
Allowed == MergeAllowedHosts(<<Base, Parse(Value)>>)

(* SanitizeGitURL *)
Accepts(url) == Clean(url) /\ url.host \in ToSet(Allowed)

TypeOK ==
  /\ setting \in Lists \cup {None}
  /\ pc      \in [Editors -> {"idle", "read", "swap"}]
  /\ seen    \in [Editors -> Lists \cup {None}]
  /\ typed   \in [Editors -> Typed \cup {<<>>}]
  /\ raw     \in [Editors -> Lists]
  /\ answer  \in [Editors -> {"none", "saved", "conflict", "error"}]
  /\ stale   \in [Editors -> BOOLEAN]

Init ==
  /\ setting = None
  /\ pc     = [e \in Editors |-> "idle"]
  /\ seen   = [e \in Editors |-> None]
  /\ typed  = [e \in Editors |-> <<>>]
  /\ raw    = [e \in Editors |-> <<>>]
  /\ answer = [e \in Editors |-> "none"]
  /\ stale  = [e \in Editors |-> FALSE]

(* GET: the list, and the revision of the text it was parsed from.  An answer  *)
(* that fails leaves the form as it was.                                     *)
Load(e) ==
  /\ pc[e] = "idle" /\ Parse(Value) # None
  /\ seen'   = [seen   EXCEPT ![e] = Value]
  /\ stale'  = [stale  EXCEPT ![e] = FALSE]
  /\ answer' = [answer EXCEPT ![e] = "none"]
  /\ UNCHANGED <<setting, pc, typed, raw>>

(* The body of a PUT is parsed before anything is read; or it is a 400 *)
Submit(e) ==
  /\ pc[e] = "idle" /\ seen[e] # None
  /\ \E text \in Typed : typed' = [typed EXCEPT ![e] = text]
  /\ LET ok == Parse(typed'[e]) # None IN
     /\ pc'     = [pc     EXCEPT ![e] = IF ok THEN "read" ELSE "idle"]
     /\ answer' = [answer EXCEPT ![e] = IF ok THEN "none" ELSE "error"]
  /\ UNCHANGED <<setting, seen, raw, stale>>

(* Seeded bug: the list is saved as it was typed *)
Saved_asTyped(e) == typed[e]

Saved(e) == Parse(typed[e])

Answer(e, how) ==
  /\ pc'     = [pc     EXCEPT ![e] = "idle"]
  /\ answer' = [answer EXCEPT ![e] = how]
  /\ UNCHANGED typed

(* The If-Match test on the value read; a read that fails is a 500 *)
ReadCurrent(e) ==
  /\ pc[e] = "read"
  /\ \/ /\ e \in Careful => Value = seen[e]
        /\ raw' = [raw EXCEPT ![e] = Value] /\ pc' = [pc EXCEPT ![e] = "swap"]
        /\ UNCHANGED <<typed, answer>>
     \/ /\ e \in Careful /\ Value # seen[e]
        /\ Answer(e, "conflict") /\ UNCHANGED raw
     \/ Answer(e, "error") /\ UNCHANGED raw
  /\ UNCHANGED <<setting, seen, stale>>

(* Seeded bug: an upsert with no test of the old value, PutSetting *)
Hits_always(expected) == TRUE

(* Seeded bug: a plain UPDATE, which cannot create the row *)
Hits_rowOnly(expected) == setting # None /\ setting = expected

(* CompareAndSwapSetting: a missing row is inserted when "" was expected, an   *)
(* existing one updated when it holds what was expected.                      *)
Hits(expected) ==
  \/ setting = None /\ expected = <<>>
  \/ setting # None /\ setting = expected

(* Seeded bug: the hosts are added to the list, not put in its place *)
Swap_adds(e) ==
  /\ pc[e] = "swap" /\ Hits(raw[e])
  /\ setting' = raw[e] \o Saved(e)
  /\ Answer(e, "saved") /\ seen' = [seen EXCEPT ![e] = setting']
  /\ stale' = [other \in Editors |-> other # e]
  /\ UNCHANGED raw

(* The editor learns the new revision from the 200; or the row is saved and    *)
(* the answer lost; or the swap finds another value, 412; or it fails.        *)
Swap(e) ==
  /\ pc[e] = "swap"
  /\ \/ /\ Hits(raw[e]) /\ setting' = Saved(e)
        /\ \/ /\ Answer(e, "saved") /\ seen' = [seen EXCEPT ![e] = Saved(e)]
              /\ stale' = [other \in Editors |-> other # e]
           \/ /\ Answer(e, "error") /\ UNCHANGED seen
              /\ stale' = [other \in Editors |-> TRUE]
     \/ ~Hits(raw[e]) /\ Answer(e, "conflict") /\ UNCHANGED <<setting, seen, stale>>
     \/ Answer(e, "error") /\ UNCHANGED <<setting, seen, stale>>
  /\ UNCHANGED raw

Handler(e) == ReadCurrent(e) \/ Swap(e)

Next == \E e \in Editors : Load(e) \/ Submit(e) \/ Handler(e)

Spec == Init /\ [][Next]_vars /\ \A e \in Editors : WF_vars(Handler(e))
-------------------------------------------------------------------------------
(* A save by an editor: the step of its PUT that changes the row *)
Saves(e) == pc[e] = "swap" /\ pc'[e] = "idle" /\ setting' # setting

(* store/settings.go:35, "prevents concurrent editors from overwriting each    *)
(* other": an editor that sends If-Match replaces exactly the list it was     *)
(* shown, though the test of the revision and the save are two store calls.   *)
(* (One that sends none, as web/static/app.js does not, replaces whatever the *)
(* handler has read a moment before.)                                        *)
NoLostUpdate == [][\A e \in Careful : Saves(e) => Value = seen[e]]_vars

(* A 412 tells the truth: the row was saved by somebody else, or by a PUT of   *)
(* the editor's own whose answer was lost, since it learnt its revision.  So   *)
(* the first save finds no conflict, and a revision from a 200 is good for     *)
(* the next save.                                                             *)
NoSpuriousConflict == \A e \in Editors : answer[e] = "conflict" => stale[e]

(* What GET parses is what PUT stored: no host is dropped on the way, and the  *)
(* revision GET and PUT compute for one list is the same.                     *)
StoredAsParsed == Parse(Value) = Value

(* What a 200 tells the editor is what a POST finds, until the next save: a    *)
(* repository URL pasted into the form is one that can be scanned, and nothing *)
(* else is let in but what was typed and the built-in hosts (hosts.go:17,      *)
(* git.go:15).  A 400 saves nothing.                                         *)
SavedIsAllowed ==
  \A e \in Editors : answer[e] = "saved" /\ ~stale[e] =>
    /\ \A entry \in ToSet(typed[e]) \cap Urls : Accepts(entry)
    /\ \A host \in ToSet(Allowed) \ ToSet(Base) :
         \E entry \in ToSet(typed[e]) : entry = host \/ (entry \in Urls /\ entry.host = host)
===============================================================================
