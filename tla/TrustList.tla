----------------------------- MODULE TrustList -----------------------------
(***************************************************************************)
(* The list of accepted kubeconfigs and the contexts found in them         *)
(* (internal/kubeconfig/trust.go, discover.go, cmd/kubetin/trust.go).      *)
(*                                                                         *)
(* A start reads the list of content hashes, asks about the files whose    *)
(* content is not on it, writes the list through a temporary file, and     *)
(* loads the contexts of the files that are on it.  Meanwhile a login may  *)
(* rewrite a kubeconfig, a user may remove the list or make it unreadable, *)
(* and the program may be killed.  A file's hash stands for its content;   *)
(* the path kept beside it only words the question.                        *)
(***************************************************************************)
EXTENDS Integers, Sequences, FiniteSets, Ordered

CONSTANTS Files,      \* kubeconfig files, as numbers in the order of their paths
          Contents,   \* what a file may hold, as numbers; 0 is no file
          ContextsOf, \* the raw context names of each content; none if it does not parse
          NameOf,     \* the raw names, in their order, each as a sequence of its parts
          Tails,      \* pathTails of each file: from its base name to its path
          Suffix,     \* " [1]", " [2]" and so on, as many as references can need
          MaxTrustEvents \* bound on launches, edits and faults

ASSUME TrustAssumption ==
  /\ Files \subseteq Nat /\ IsFiniteSet(Files) /\ Contents \subseteq Nat \ {0} /\ IsFiniteSet(Contents)
  /\ ContextsOf \in [Contents -> SUBSET DOMAIN NameOf]
  /\ NameOf \in Seq(Seq(STRING)) /\ \A i, j \in DOMAIN NameOf : NameOf[i] = NameOf[j] => i = j
  /\ Tails \in [Files -> Seq(STRING)] /\ Suffix \in Seq(STRING)
  /\ \A i, j \in DOMAIN Suffix : Suffix[i] = Suffix[j] => i = j
  /\ Len(Suffix) >= 2 * Len(NameOf) * Cardinality(Files) + 2
  /\ MaxTrustEvents \in Nat

NoFile == 0

VARIABLES
  content,  \* the content of each file
  list,     \* the trust file
  tmp,      \* the temporary file beside it
  prog,     \* the program: where it is, its TrustList and what it found
  blessed,  \* history: hashes on the list since it was last removed or started afresh
  trustEvents

trustVars == <<content, list, tmp, prog, blessed, trustEvents>>

NoProg == [pc |-> "off", trust |-> FALSE, hashes |-> {}, lost |-> FALSE, files |-> {}, refs |-> <<>>, names |-> <<>>]

TrustInit ==
  /\ content \in [Files -> Contents \cup {NoFile}]
  /\ list = [there |-> FALSE, readable |-> TRUE, hashes |-> {}]
  /\ tmp = {} /\ prog = NoProg /\ blessed = {} /\ trustEvents = 0

TrustEvent == trustEvents < MaxTrustEvents /\ trustEvents' = trustEvents + 1

-----------------------------------------------------------------------------
(* discoverFiles: the contexts of the files, in the order of raw name and  *)
(* file, and their names.                                                  *)

\* Which of two references comes first.
RefBefore(refs) == {p \in refs \X refs : p[1][1] < p[2][1] \/ (p[1][1] = p[2][1] /\ p[1][2] < p[2][2])}

RefsOf(S) ==
  LET refs == {r \in (DOMAIN NameOf) \X S :
                 content[r[2]] # NoFile /\ r[1] \in ContextsOf[content[r[2]]]}
  IN  InSequence(refs, RefBefore(refs))

\* A wrong Reserved: only names that were given are.
ReservedNone(refs) == {}

\* Every raw name is reserved.
Reserved(refs) == {NameOf[refs[i][1]] : i \in DOMAIN refs}

Label(r, tail) == Append(NameOf[r[1]], tail)

\* Another file has a context of the same raw name.
Shared(refs, i) == \E j \in DOMAIN refs \ {i} : refs[j][1] = refs[i][1]

Candidates(refs, i) ==
  IF Shared(refs, i)
  THEN [k \in DOMAIN Tails[refs[i][2]] |-> Label(refs[i], Tails[refs[i][2]][k])] ELSE <<>>

Times(refs, name) ==
  Cardinality({i \in DOMAIN refs : \E k \in DOMAIN Candidates(refs, i) : Candidates(refs, i)[k] = name})

\* The label with the whole path, and a number.
Numbered(r, n) == Append(Label(r, Tails[r[2]][Len(Tails[r[2]])]), Suffix[n])

\* The name of the i-th reference when the names in `taken` are.
NameFor(refs, i, taken) ==
  LET candidates == Candidates(refs, i)
      good == {k \in DOMAIN candidates : Times(refs, candidates[k]) = 1 /\ candidates[k] \notin taken}
      free == {n \in 2..Len(Suffix) : Numbered(refs[i], n) \notin taken}
  IN  IF ~Shared(refs, i) THEN NameOf[refs[i][1]]
      ELSE IF good # {} THEN candidates[CHOOSE k \in good : \A x \in good : k <= x]
      ELSE Numbered(refs[i], CHOOSE n \in free : \A x \in free : n <= x)

\* assignContextNames
NamesOf(refs) ==
  LET name[i \in DOMAIN refs] ==
        NameFor(refs, i, Reserved(refs) \cup {name[k] : k \in 1..(i - 1)})
  IN  name

-----------------------------------------------------------------------------
(* The program.                                                            *)

Ends == prog' = NoProg
Present == {f \in Files : content[f] # NoFile}
IsTrusted(f, hashes) == content[f] \in hashes
HashesOf(S) == {content[f] : f \in {x \in S : content[x] # NoFile}}

\* LoadTrustList: nothing of a list that cannot be read.
LoadedHashes == IF list.there /\ list.readable THEN list.hashes ELSE {}

\* "exists but is unreadable": refuse to start.
FailsClosed == list.there /\ ~list.readable

\* loadTrustedDiscovery, up to the first discovery.
LaunchNormal ==
  /\ prog.pc = "off" /\ TrustEvent
  /\ ~FailsClosed /\ Present # {}
  /\ prog' = [NoProg EXCEPT !.pc = "discovering", !.hashes = LoadedHashes]
  /\ UNCHANGED <<content, list, tmp, blessed>>

\* runTrust: a list it cannot read is started afresh.
LaunchTrust ==
  /\ prog.pc = "off" /\ TrustEvent /\ Present # {}
  /\ prog' = [NoProg EXCEPT !.pc = "saving", !.trust = TRUE, !.lost = list.there /\ ~list.readable,
                            !.hashes = LoadedHashes \cup HashesOf(Present)]
  /\ UNCHANGED <<content, list, tmp, blessed>>

\* DiscoverTrusted and the question, which lists what is not trusted.
DiscoverTrusted ==
  /\ prog.pc = "discovering"
  /\ LET untrusted == {f \in Present : ~IsTrusted(f, prog.hashes)}
     IN  prog' = IF Present = {} THEN NoProg
                 ELSE IF untrusted = {} THEN [prog EXCEPT !.pc = "loading", !.files = Present]
                 ELSE [prog EXCEPT !.pc = "asking", !.files = untrusted]
  /\ UNCHANGED <<content, list, tmp, blessed, trustEvents>>

AnswerPrompt(yes) ==
  /\ prog.pc = "asking"
  /\ IF yes THEN prog' = [prog EXCEPT !.pc = "saving", !.hashes = @ \cup HashesOf(prog.files)]
     ELSE Ends
  /\ UNCHANGED <<content, list, tmp, blessed, trustEvents>>

\* A wrong OpenTmp: the list itself is opened, and truncated.
OpenInPlace == tmp' = {} /\ list' = [list EXCEPT !.hashes = {}]

\* Save opens the temporary file, which may be left over from a crash.
OpenTmp == tmp' = {} /\ UNCHANGED list

BeginSave ==
  /\ prog.pc = "saving" /\ OpenTmp
  /\ prog' = [prog EXCEPT !.pc = "writing"]
  /\ UNCHANGED <<content, blessed, trustEvents>>

WriteTmp ==
  /\ prog.pc = "writing" /\ tmp' = prog.hashes
  /\ prog' = [prog EXCEPT !.pc = "renaming"]
  /\ UNCHANGED <<content, list, blessed, trustEvents>>

\* The file cannot be opened, written (it is removed) or renamed (it stays).
SaveFails ==
  /\ prog.pc \in {"saving", "writing", "renaming"} /\ TrustEvent
  /\ tmp' = IF prog.pc = "writing" THEN {} ELSE tmp
  /\ Ends /\ UNCHANGED <<content, list, blessed>>

RenameTmp ==
  /\ prog.pc = "renaming"
  /\ list' = [there |-> TRUE, readable |-> TRUE, hashes |-> tmp] /\ tmp' = {}
  /\ blessed' = IF prog.lost THEN tmp ELSE blessed \cup tmp
  /\ IF prog.trust THEN Ends ELSE prog' = [prog EXCEPT !.pc = "rediscovering"]
  /\ UNCHANGED <<content, trustEvents>>

\* DiscoverTrusted once more; what is not trusted now is left out.
Rediscover ==
  /\ prog.pc = "rediscovering"
  /\ prog' = IF Present = {} THEN NoProg
             ELSE [prog EXCEPT !.pc = "loading",
                               !.files = {f \in Present : IsTrusted(f, prog.hashes)}]
  /\ UNCHANGED <<content, list, tmp, blessed, trustEvents>>

\* discoverFiles; without a context main gives up.
LoadContexts ==
  /\ prog.pc = "loading"
  /\ \E refs \in {RefsOf(prog.files)} :
       prog' = IF refs = <<>> THEN NoProg
               ELSE [prog EXCEPT !.pc = "started", !.refs = refs, !.names = NamesOf(refs)]
  /\ UNCHANGED <<content, list, tmp, blessed, trustEvents>>

\* The program ends or is killed, at any moment.
EndOrCrash ==
  /\ prog.pc # "off" /\ Ends /\ UNCHANGED <<content, list, tmp, blessed, trustEvents>>

-----------------------------------------------------------------------------
(* The user and other programs.                                            *)

EditKubeconfig(f, c) ==
  /\ TrustEvent /\ c # content[f] /\ content' = [content EXCEPT ![f] = c]
  /\ UNCHANGED <<list, tmp, prog, blessed>>

RemoveList ==
  /\ TrustEvent /\ list.there /\ list' = [there |-> FALSE, readable |-> TRUE, hashes |-> {}]
  /\ blessed' = {} /\ UNCHANGED <<content, tmp, prog>>

SetReadable(on) ==
  /\ TrustEvent /\ list.there /\ list.readable # on /\ list' = [list EXCEPT !.readable = on]
  /\ UNCHANGED <<content, tmp, prog, blessed>>

TrustNext ==
  \/ LaunchNormal \/ LaunchTrust \/ DiscoverTrusted \/ \E yes \in BOOLEAN : AnswerPrompt(yes)
  \/ BeginSave \/ WriteTmp \/ SaveFails \/ RenameTmp \/ Rediscover \/ LoadContexts \/ EndOrCrash
  \/ \E f \in Files, c \in Contents \cup {NoFile} : EditKubeconfig(f, c)
  \/ RemoveList \/ \E on \in BOOLEAN : SetReadable(on)

TrustSpec == TrustInit /\ [][TrustNext]_trustVars

-----------------------------------------------------------------------------
\* Nothing but removing it, or -trust on a list that cannot be read, takes a
\* hash from the list: no start that fails, is killed in the middle of a save or
\* finds the list unreadable does.
ListKept == list.there => blessed \subseteq list.hashes

\* The contexts a start found have different names, also where one is literally
\* called what another's label would be, and none has the raw name of a context
\* of another name: RefByName finds the one that is meant.
NamesDistinct ==
  prog.pc = "started" =>
    \A i, j \in DOMAIN prog.refs : i # j =>
      /\ prog.names[i] # prog.names[j]
      /\ prog.names[i] = NameOf[prog.refs[j][1]] => prog.refs[i][1] = prog.refs[j][1]

-----------------------------------------------------------------------------
(* What an induction needs besides.                                        *)

\* The references and names found are whatever they are.
ProgType ==
  [pc : {"off", "discovering", "asking", "saving", "writing", "renaming", "rediscovering", "loading", "started"},
   trust : BOOLEAN, hashes : SUBSET Contents, lost : BOOLEAN, files : SUBSET Files,
   refs : {prog.refs}, names : {prog.names}]

TrustTypeOK ==
  /\ content \in [Files -> Contents \cup {NoFile}]
  /\ list \in [there : BOOLEAN, readable : BOOLEAN, hashes : SUBSET Contents]
  /\ tmp \subseteq Contents /\ prog \in ProgType

\* A start carries every hash there is to lose, unless it lost a list it could
\* not read, and what it is about to rename is what it carries.
CarriedInv ==
  /\ ~list.there => blessed = {}
  /\ prog.pc # "off" /\ ~prog.lost => blessed \subseteq prog.hashes
  /\ prog.pc = "renaming" => tmp = prog.hashes

TrustInv == TrustTypeOK /\ ListKept /\ CarriedInv
=============================================================================
