----------------------------- MODULE SourceSnapshot -----------------------------
(***************************************************************************)
(* The excerpts of the scanned tree that are stored beside findings        *)
(* (internal/scan/source_snapshot.go).  A file is read line by line by a   *)
(* machine that hides the values of secrets: those the scanner located,    *)
(* those on a line that looks like a credential, and, across lines, quoted *)
(* values, YAML block values and private keys.                             *)
(*                                                                         *)
(* A line is abstracted to what the machine looks at.  The file is written *)
(* as it is read, by a grammar (Continues, Starts, Ordinary) that knows    *)
(* what each line holds; form, base, pem, lost and unruled are the         *)
(* grammar's, never read by the machine.  A value that spans lines is one  *)
(* of the machine's three forms, or a raw one that it has no rule for: a   *)
(* text in triple quotes or backquotes, bare lines of base64.              *)
(***************************************************************************)
EXTENDS SourceTree

CONSTANTS
  SnapLimit,   \* size of the largest file excerpted
  MaxLines,    \* bound on the lines of a file, and on the lines a finding names
  MaxIndent,   \* bound on indentation
  Radius       \* lines kept on each side of the highlighted one

ASSUME SnapshotAssumption ==
  SnapLimit \in Nat /\ MaxLines \in Nat /\ MaxIndent \in Nat /\ Radius \in Nat

VARIABLES
  spc,          \* "off", "lines" (redacting), "stored"
  len,          \* lines of the file
  highlight,    \* the finding's line
  window,       \* <<start, end>>: the excerpt is lines[start:end]
  located,      \* secretLines: the lines scanners have located secrets on
  blind,        \* unknownSecretFiles: where the secrets are is not known
  at,           \* lines redacted so far
  key,          \* privateBlock is set
  blockIndent,  \* indentation of an open block value, or -1
  quote,        \* openQuote is set
  form,         \* grammar: the file is in "code", a "quoted", "block" or "raw" value
  base,         \* grammar: indentation of the field with the block value
  pem,          \* grammar: ... and inside a private key
  lost,         \* grammar: a secret of the file is not where its location says
  unruled,      \* grammar: ... or has had a line that the machine has no rule for
  last          \* what the last line holds, and what became of it

snapVars == <<spc, len, highlight, window, located, blind, at, key, blockIndent,
              quote, form, base, pem, lost, unruled, last>>

Blank == [blank |-> TRUE, indent |-> 0, cred |-> FALSE, value |-> "none",
          closes |-> FALSE, begin |-> FALSE, end |-> FALSE]

(* cred: credentialLine matches.  value: what follows assignmentPrefix, if it  *)
(* matches at all: a block (or nothing), a quote left open, or plain text.    *)
(* closes: hasClosingQuote.  begin, end: the markers of a private key.        *)
Lines == {Blank} \cup
  [blank : {FALSE}, indent : 0 .. MaxIndent, cred : BOOLEAN,
   value : {"none", "block", "open", "plain"}, closes : BOOLEAN,
   begin : BOOLEAN, end : BOOLEAN]

Hides == {"content", "field", "code", "empty"}   \* what a line can hold

SnapTypeOK ==
  /\ TreeTypeOK
  /\ spc \in {"off", "lines", "stored"}
  /\ len \in 0 .. MaxLines /\ highlight \in 0 .. len /\ at \in 0 .. len
  /\ located \in SUBSET (1 .. MaxLines + 1) /\ blind \in BOOLEAN
  /\ key \in BOOLEAN /\ quote \in BOOLEAN /\ blockIndent \in -1 .. MaxIndent
  /\ form \in {"code", "quoted", "block", "raw"} /\ base \in 0 .. MaxIndent
  /\ pem \in BOOLEAN /\ lost \in BOOLEAN /\ unruled \in BOOLEAN
  /\ last.holds \in Hides /\ last.out \in {"kept", "name", "hidden"}

Nothing == [holds |-> "empty", out |-> "kept"]

Fresh ==
  /\ at' = 0 /\ key' = FALSE /\ blockIndent' = -1 /\ quote' = FALSE
  /\ form' = "code" /\ base' = 0 /\ pem' = FALSE /\ unruled' = FALSE /\ last' = Nothing

SnapInit ==
  /\ spc = "off" /\ len = 0 /\ highlight = 0 /\ window = <<0, 0>>
  /\ located = {} /\ blind = FALSE /\ lost = FALSE
  /\ at = 0 /\ key = FALSE /\ blockIndent = -1 /\ quote = FALSE
  /\ form = "code" /\ base = 0 /\ pem = FALSE /\ unruled = FALSE /\ last = Nothing

-------------------------------------------------------------------------------
(* Which lines the scanner located                                           *)

(* Seeded bug: a location past the end of the file is taken as it is *)
Unplaced_inFile(f, lines) == f.line < 1 \/ ~f.parsed \/ f.end \in 1 .. f.line - 1

(* A secret finding without a usable range of lines of this file: no line, no  *)
(* location that parses (or one of absurd length), an end before its start.   *)
(* An end of 0 is the line itself.                                           *)
Unplaced(f, lines) ==
  \/ f.line < 1 \/ ~f.parsed \/ f.end \in 1 .. f.line - 1
  \/ f.line > lines \/ f.end > lines

Located(f) == f.line .. (IF f.end = 0 THEN f.line ELSE f.end)

Locations == [line : 0 .. MaxLines + 1, end : 0 .. MaxLines + 1, parsed : BOOLEAN]

(* Seeded bug: the window is taken from one line too late *)
Window_late(line, lines) ==
  <<IF line < Radius THEN 0 ELSE line - Radius, IF line + Radius > lines THEN lines ELSE line + Radius>>

(* line is 1-based, the slice lines[start:end] 0-based and half open *)
Window(line, lines) ==
  <<IF line - (Radius + 1) < 0 THEN 0 ELSE line - (Radius + 1),
    IF line + Radius > lines THEN lines ELSE line + Radius>>

(* A finding of a regular file within the limit.  Its line is its own, or the  *)
(* one dependencySourceLine finds for its package.  Of the secrets found in    *)
(* the file one may be located; findings of anything else get no excerpt.     *)
OpenFile(name) ==
  /\ pc = "done" /\ spc = "off"
  /\ name \notin links /\ disk[name] # Absent /\ disk[name] <= SnapLimit
  /\ spc' = "lines" /\ len' \in 1 .. MaxLines
  /\ highlight' \in 1 .. len' /\ window' = Window(highlight', len')
  /\ \/ located' = {} /\ blind' = FALSE /\ lost' = FALSE
     \/ \E f \in Locations :
          /\ blind' = Unplaced(f, len')
          /\ located' = IF blind' THEN {} ELSE Located(f)
          /\ lost' = ~(f.parsed /\ Located(f) # {} /\ Located(f) \subseteq 1 .. len')
  /\ Fresh

-------------------------------------------------------------------------------
(* The machine                                                               *)

Sensitive(l) == at + 1 \in located \/ l.cred

InKey(l) == key \/ l.begin

(* Seeded bug: an empty line ends a block value *)
InBlock_nonEmpty(l) == blockIndent >= 0 /\ ~l.blank /\ l.indent > blockIndent

InBlock(l) == blockIndent >= 0 /\ (l.blank \/ l.indent > blockIndent)

(* Seeded bug: an assignment inside a value starts a new one *)
Tracks_always(l) == Sensitive(l) /\ ~InKey(l)

(* Only a field outside any value opens a new one *)
Tracks(l) == Sensitive(l) /\ ~quote /\ ~InBlock(l) /\ ~InKey(l)

Output(l) ==
  IF blind \/ InKey(l) \/ InBlock(l) \/ quote THEN "hidden"
  ELSE IF ~Sensitive(l) THEN "kept"
  ELSE IF l.value = "none" THEN "hidden" ELSE "name"   \* redactSourceLine

(* Seeded bug: a block is taken to be indented one deeper than its field *)
Redact_deeper(l) ==
  /\ key' = (InKey(l) /\ ~l.end)
  /\ quote' = ((quote /\ ~l.closes) \/ (Tracks(l) /\ l.value = "open"))
  /\ blockIndent' = IF Tracks(l) /\ l.value = "block" THEN l.indent + 1
                    ELSE IF InBlock(l) THEN blockIndent ELSE -1

Redact(l) ==
  /\ key' = (InKey(l) /\ ~l.end)
  /\ quote' = ((quote /\ ~l.closes) \/ (Tracks(l) /\ l.value = "open"))
  /\ blockIndent' = IF Tracks(l) /\ l.value = "block" THEN l.indent
                    ELSE IF InBlock(l) THEN blockIndent ELSE -1

-------------------------------------------------------------------------------
(* The grammar                                                               *)

Inside(l) ==
  form \in {"quoted", "raw"} \/ (form = "block" /\ (l.blank \/ l.indent > base))

(* What a line of a raw value holds is hidden for reasons of its own only if it *)
(* is a key's, or sensitive and not taken for an assignment.                  *)
Overlooked(l) == ~l.blank /\ ~(pem \/ l.begin) /\ (Sensitive(l) => l.value # "none")

(* A line inside a value: a private key is closed before its value is *)
Continues(l) ==
  /\ Inside(l) \/ pem
  /\ form = "block" => Inside(l)
  /\ l.begin => ~pem
  /\ pem' = ((pem \/ l.begin) /\ ~l.end)
  /\ form = "quoted" /\ l.closes => ~pem'
  /\ IF form = "raw" THEN form' \in {"raw", "code"} /\ (pem' => form' = "raw")
                     ELSE form' = IF form = "quoted" /\ l.closes THEN "code" ELSE form
  /\ UNCHANGED base
  /\ unruled' = (unruled \/ (form = "raw" /\ Overlooked(l)))
  /\ last'.holds = IF l.blank THEN "empty" ELSE "content"

(* A field and its value, which is all on the line, or of the form the rules   *)
(* take it for, or raw                                                       *)
StartsField(l) ==
  /\ Sensitive(l) /\ ~l.begin /\ l.value # "none"
  /\ form' \in {"raw", CASE l.value = "open"  -> "quoted"
                        [] l.value = "block" -> "block"
                        [] l.value = "plain" -> "code"}
  /\ unruled' = (unruled \/ (form' = "raw" /\ l.value \in {"open", "block"}))
  /\ last'.holds = "field"

(* The line of a secret by itself: a key, a text with no field, or what the    *)
(* scanner has located, which may look like an assignment without being one:  *)
(* base64 that ends in "=".  More lines of the secret may follow.             *)
StartsSecret(l) ==
  /\ l.begin \/ (Sensitive(l) /\ l.value = "none") \/ at + 1 \in located
  /\ form' \in {"raw", "code"}
  /\ unruled' = (unruled \/ (~l.begin /\ l.value # "none"))
  /\ last'.holds = "content"

(* A line outside any value that holds a secret, or the start of one *)
Starts(l) ==
  /\ ~Inside(l) /\ ~pem /\ ~l.blank
  /\ pem' = (l.begin /\ ~l.end)
  /\ StartsField(l) \/ StartsSecret(l)
  /\ base' = IF form' = "block" THEN l.indent ELSE 0

(* Any other line is code, or a secret that nothing gives away *)
Ordinary(l) ==
  /\ ~Inside(l) /\ ~pem /\ ~(~l.blank /\ Sensitive(l)) /\ ~l.begin
  /\ form' = "code" /\ base' = 0 /\ pem' = FALSE /\ UNCHANGED unruled
  /\ last'.holds \in IF l.blank THEN {"empty"}
                     ELSE IF lost THEN {"code", "content"} ELSE {"code"}

(* Marks nothing would look at are left out *)
ReadLine(l) ==
  /\ spc = "lines" /\ at < len /\ at' = at + 1
  /\ l.closes => quote \/ form = "quoted"
  /\ l.end => InKey(l) \/ pem
  /\ \E h \in Hides : last' = [holds |-> h, out |-> Output(l)]
  /\ Continues(l) \/ Starts(l) \/ Ordinary(l)
  /\ Redact(l)
  /\ UNCHANGED <<spc, len, highlight, window, located, blind, lost>>

(* The excerpt is stored in the finding, or is too long and left out *)
CloseFile ==
  /\ spc = "lines" /\ at = len
  /\ spc' \in {"stored", "off"}
  /\ Fresh
  /\ IF spc' = "stored" THEN UNCHANGED <<len, highlight, window>>
                        ELSE len' = 0 /\ highlight' = 0 /\ window' = <<0, 0>>
  /\ located' = {} /\ blind' = FALSE /\ lost' = FALSE

(* ... and the next finding is looked at *)
NextFinding ==
  /\ spc = "stored" /\ spc' = "off"
  /\ len' = 0 /\ highlight' = 0 /\ window' = <<0, 0>>
  /\ UNCHANGED <<located, blind, at, key, blockIndent, quote, form, base, pem, lost,
                 unruled, last>>

Attach == \/ \E name \in Names : OpenFile(name)
          \/ \E l \in Lines : ReadLine(l)
          \/ CloseFile \/ NextFinding

Next == \/ FetchTree /\ UNCHANGED snapVars
        \/ Attach /\ UNCHANGED treeVars

Init == TreeInit /\ SnapInit

Spec == Init /\ [][Next]_<<treeVars, snapVars>>
-------------------------------------------------------------------------------
(* A line of a secret is hidden whole and of a field no more than its name is  *)
(* kept, in a file whose values the machine has rules for: each is on its      *)
(* field's line, quoted, a block, a key, or on sensitive lines of which none   *)
(* looks like an assignment.  In any other file too, no line that the scanner *)
(* has located a secret on is kept whole; but what looks like a field's name  *)
(* on it is, where source_snapshot.go:26 says "never a value".               *)
ValuesHidden ==
  /\ last.holds = "content" /\ ~unruled => last.out = "hidden"
  /\ last.holds = "field" => last.out # "kept"
  /\ at \in located => last.out # "kept"

(* In a file of such values code is never hidden, unless nobody knows where in *)
(* the file the secret is: no end of a value is missed.  A value that looks   *)
(* like a field in its middle does hide the code below.                      *)
CodeKept == last.holds = "code" /\ ~lost /\ ~unruled => last.out = "kept"

(* The excerpt is every line of the file within Radius of the highlighted one, *)
(* at either end of the file too.                                            *)
WindowAround ==
  spc # "off" => (window[1] + 1) .. window[2] =
                   {n \in 1 .. len : n - highlight \in -Radius .. Radius}
===============================================================================
