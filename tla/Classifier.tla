----------------------------- MODULE Classifier -----------------------------
(***************************************************************************)
(* src/analysis/classifier.go: reports on the files of a directory, while  *)
(* the programs whose output they are may still be adding, rewriting or    *)
(* removing them.  The directory is read three times, for the total, for   *)
(* main's list and for the sizes, and a reading that fails is taken for an *)
(* empty directory: its error is dropped.  Each listed file is then opened *)
(* by its name to be hashed.  Blank files are told by the size in the      *)
(* list, duplicates by the hash; two contents are taken to have two hashes.*)
(***************************************************************************)
EXTENDS Integers, FiniteSetsExt

CONSTANTS
    Names,      \* names of files, numbered in the order ReadDir sorts them
    Contents,   \* what a file may hold
    SizeOf,     \* the size of each content
    Unreadable, \* contents that io.Copy fails on: a subdirectory
    MaxEdits    \* bound on what others do to the directory meanwhile

ASSUME FilesAssumption ==
    /\ Names \subseteq Nat /\ IsFiniteSet(Names)
    /\ SizeOf \in [Contents -> Nat]
    /\ Unreadable \subseteq Contents
    /\ MaxEdits \in Nat

(* The blank file is one: no byte, and one hash.                           *)
ASSUME BlankAssumption ==
    \A c, d \in Contents \ Unreadable : SizeOf[c] = 0 /\ SizeOf[d] = 0 => c = d

VARIABLES
    report, \* what main does next, or how it ended
    dir,    \* the files of the directory and what each holds
    total,  \* count_files
    files,  \* main's list: the name and size of each file
    bins,   \* get_file_sizes: how many files there are of each size
    empty,  \* check_empty_files
    md5map, \* the content each file had when it was hashed
    dups,   \* check_duplicate_content
    edits,  \* history: files added, removed or rewritten since the total
    unread  \* history: the readings that failed

classVars == <<report, dir, total, files, bins, empty, md5map, dups, edits, unread>>

Partial(S, T) == UNION {[D -> T] : D \in SUBSET S}
AllSizes == {SizeOf[c] : c \in Contents}

ClassTypeOK ==
    /\ report \in {"total", "list", "sizes", "blank", "hash", "done", "fatal"}
    /\ dir \in Partial(Names, Contents)
    /\ total \in Nat
    /\ files \in Partial(Names, AllSizes)
    /\ bins \in Partial(AllSizes, 1..Cardinality(Names))
    /\ empty \in Nat
    /\ md5map \in Partial(Names, Contents)
    /\ dups \in Nat
    /\ edits \in 0..MaxEdits
    /\ unread \subseteq {"total", "list", "sizes"}
-----------------------------------------------------------------------------
(* What ReadDir returns, and how many names are in a list with property P. *)
(* The variant before a definition is a slip that a property must catch.   *)
ReadDir == [n \in DOMAIN dir |-> SizeOf[dir[n]]]
Sizes == {SizeOf[dir[n]] : n \in DOMAIN dir}
Number(list, P(_)) == Cardinality({n \in DOMAIN list : P(list[n])})

(* s[f.Size()] = f.Size() stands until the files of that size are counted  *)
SizesThemselves == [s \in Sizes |-> s]
CountedBySize == [s \in Sizes |-> Number(ReadDir, LAMBDA size : size = s)]

FilledFiles == Number(files, LAMBDA size : size # 0)
BlankFiles == Number(files, LAMBDA size : size = 0)

Copies(n) == Number(md5map, LAMBDA c : c = md5map[n])
OriginalsLeftOut == Cardinality(DOMAIN md5map) - Cardinality({md5map[n] : n \in DOMAIN md5map})
FilesWithACopy == Cardinality({n \in DOMAIN md5map : Copies(n) > 1})
-----------------------------------------------------------------------------
ClassInit ==
    /\ report = "total"
    /\ dir = [n \in {} |-> 0]
    /\ total = 0
    /\ files = [n \in {} |-> 0]
    /\ bins = [s \in {} |-> 0]
    /\ empty = 0
    /\ md5map = [n \in {} |-> 0]
    /\ dups = 0
    /\ edits = 0
    /\ unread = {}

(* files, _ := ioutil.ReadDir                                              *)
Reads(reading) == report = reading /\ UNCHANGED unread
ReadFails(reading) == report = reading /\ unread' = unread \cup {reading}

(* count_files of a directory that may hold anything.                      *)
CountFiles ==
    /\ dir' \in Partial(Names, Contents)
    /\ \/ Reads("total") /\ total' = Cardinality(DOMAIN dir')
       \/ ReadFails("total") /\ total' = 0
    /\ report' = "list"
    /\ UNCHANGED <<files, bins, empty, md5map, dups, edits>>

ListFiles ==
    /\ \/ Reads("list") /\ files' = ReadDir
       \/ ReadFails("list") /\ files' = [n \in {} |-> 0]
    /\ report' = "sizes"
    /\ UNCHANGED <<dir, total, bins, empty, md5map, dups, edits>>

GetFileSizes ==
    /\ \/ Reads("sizes") /\ bins' = CountedBySize
       \/ ReadFails("sizes") /\ bins' = [s \in {} |-> 0]
    /\ report' = "blank"
    /\ UNCHANGED <<dir, total, files, empty, md5map, dups, edits>>

CheckEmptyFiles ==
    /\ report = "blank"
    /\ empty' = BlankFiles
    /\ report' = "hash"
    /\ UNCHANGED <<dir, total, files, bins, md5map, dups, edits, unread>>

(* getFileMD5 of the next file of the list; one that is gone, or cannot be *)
(* read, ends the program.                                                 *)
HashFile ==
    /\ report = "hash"
    /\ \E n \in DOMAIN files \ DOMAIN md5map :
          /\ \A m \in DOMAIN files \ DOMAIN md5map : n <= m
          /\ IF n \in DOMAIN dir /\ dir[n] \notin Unreadable
             THEN /\ md5map' = [m \in DOMAIN md5map \cup {n} |-> IF m = n THEN dir[n] ELSE md5map[m]]
                  /\ UNCHANGED report
             ELSE report' = "fatal" /\ UNCHANGED md5map
    /\ UNCHANGED <<dir, total, files, bins, empty, dups, edits, unread>>

CheckDuplicates ==
    /\ report = "hash"
    /\ DOMAIN md5map = DOMAIN files
    /\ dups' = FilesWithACopy
    /\ report' = "done"
    /\ UNCHANGED <<dir, total, files, bins, empty, md5map, edits, unread>>

(* Another program adds, rewrites or removes a file.                       *)
Edit ==
    /\ report \notin {"total", "done", "fatal"}
    /\ edits < MaxEdits
    /\ edits' = edits + 1
    /\ \E n \in Names :
          \/ /\ n \in DOMAIN dir
             /\ dir' = [m \in DOMAIN dir \ {n} |-> dir[m]]
          \/ \E c \in Contents \ Unreadable :
                dir' = [m \in DOMAIN dir \cup {n} |-> IF m = n THEN c ELSE dir[m]]
    /\ UNCHANGED <<report, total, files, bins, empty, md5map, dups, unread>>

ClassNext ==
    \/ CountFiles \/ ListFiles \/ GetFileSizes \/ CheckEmptyFiles
    \/ HashFile \/ CheckDuplicates
    \/ Edit

ClassSpec == ClassInit /\ [][ClassNext]_classVars
-----------------------------------------------------------------------------
Within(a, b, d) == a <= b + d /\ b <= a + d
BinOf(s) == IF s \in DOMAIN bins THEN bins[s] ELSE 0

(* The numbers come from three readings of the directory (lines 17, 151    *)
(* and 122): those of two readings that did not fail agree, the files by   *)
(* size with the total, and those of size 0 with the blank ones, but for   *)
(* as many files as others have touched since.                             *)
(* Duplicates come at least in twos, whatever changes between two hashes,  *)
(* for the original is one of them; in a directory left alone the files    *)
(* that are none all hold something else, and two or more blank files are  *)
(* all among them: "empty files" and "duplicated files" overlap.           *)
ReportAddsUp ==
    /\ report \in {"hash", "done", "fatal"} =>
          /\ unread \cap {"total", "sizes"} = {} =>
                Within(total, MapThenSumSet(BinOf, DOMAIN bins), edits)
          /\ unread \cap {"list", "sizes"} = {} => Within(empty, BinOf(0), edits)
    /\ report = "done" => dups # 1
    /\ (report = "done" /\ edits = 0) =>
          /\ unread \cap {"total", "list"} = {} =>
                total - dups = Cardinality({c \in Contents : Cardinality({n \in DOMAIN dir : dir[n] = c}) = 1})
          /\ empty > 1 => empty <= dups
=============================================================================
