------------------------------- MODULE Archive -------------------------------
(***************************************************************************)
(* archive.py: which files of a local directory are zipped, and which      *)
(* archives are accepted.  A file is what the code asks about it: the      *)
(* class of its lower-cased name, what git says of it, whether it lies in  *)
(* a skipped directory, whether it is a link, its size before and after    *)
(* compression.  Paths and messages are left out.                          *)
(***************************************************************************)
EXTENDS Integers, Sequences, SequencesExt

CONSTANTS
  MaxArchiveBytes,       \* MAX_ARCHIVE_BYTES
  MaxArchiveEntries,     \* MAX_ARCHIVE_ENTRIES
  MaxUncompressedBytes,  \* MAX_UNCOMPRESSED_BYTES
  MaxEntryBytes,         \* MAX_ENTRY_UNCOMPRESSED_BYTES
  MaxCompressionRatio,   \* MAX_COMPRESSION_RATIO
  Refused                \* ArchiveError was raised

ASSUME LimitsAssumption ==
  /\ {MaxArchiveBytes, MaxArchiveEntries, MaxUncompressedBytes, MaxEntryBytes} \subseteq Nat
  /\ MaxCompressionRatio \in Nat \ {0}

\* "listed", "dotenv", "suffix", "prefix": matched by one of the four tests
\* for secrets; "climbing": the name has a ".." between backslashes.
NameKinds == {"plain", "gitignore", "climbing", "listed", "dotenv", "suffix", "prefix"}

\* What `git ls-files` makes of a file; outside a repository nothing is tracked.
GitStatuses == {"tracked", "trackedIgnored", "untracked", "ignored"}

SourceFile == [id: Nat, name: NameKinds, status: GitStatuses, pruned: BOOLEAN,
               link: BOOLEAN, size: Nat, packed: Nat]

\* git: how the first git command ends; again: how those after it end;
\* repo: the directory is at or below one that has a .git.
SourceDir == [files: SUBSET SourceFile, repo: BOOLEAN,
              git: {"lists", "refuses", "hangs", "missing"},
              again: {"lists", "refuses", "hangs"}]

-----------------------------------------------------------------------------
(* Which files are zipped.                                                  *)

HasGitignore(d) == \E f \in d.files : f.name = "gitignore" /\ ~f.pruned

WithStatus(d, statuses) == {f \in d.files : f.status \in statuses}

\* A temporary repository applies the ignore rules of a plain directory.
GitignoreFilesWithoutRepo(d) ==
  IF d.again = "lists" THEN WithStatus(d, {"untracked"}) ELSE Refused

\* The files git lets through; all of them where the code has no rules to apply.
GitIncludedFiles(d) ==
  CASE d.git = "lists" ->
         IF d.again = "lists"
         THEN WithStatus(d, {"tracked", "trackedIgnored", "untracked"})
                \ WithStatus(d, {"trackedIgnored"})
         ELSE Refused
    [] d.git = "refuses" ->
         CASE d.repo -> Refused
           [] ~d.repo /\ HasGitignore(d) -> GitignoreFilesWithoutRepo(d)
           [] OTHER -> d.files
    [] d.git = "hangs" -> Refused
    [] d.git = "missing" ->
         IF d.repo \/ HasGitignore(d) THEN Refused ELSE d.files

IsSecretFile(f) == f.name \in {"listed", "dotenv", "suffix", "prefix"}

\* The walk prunes skipped directories and steps over links and secrets.
ZippedFilesOfDir(d) ==   \* mutant: os.walk alone, without the files git lets through
  {f \in d.files : ~f.pruned /\ ~f.link /\ ~IsSecretFile(f)}

ZippedFiles(d) ==
  {f \in GitIncludedFiles(d) : ~f.pruned /\ ~f.link /\ ~IsSecretFile(f)}

-----------------------------------------------------------------------------
(* Which archives are accepted.  An entry keeps its top-level directory.    *)

ArchiveEntry == [file: Nat, top: Nat, safe: BOOLEAN, link: BOOLEAN, size: Nat, packed: Nat]

\* zf.write(abs_path, "prefix/rel"): one top-level directory, no links.
ZipEntry(f) ==
  [file |-> f.id, top |-> 1, safe |-> f.name # "climbing", link |-> FALSE,
   size |-> f.size, packed |-> f.packed]

\* total_uncompressed after the first i entries.
TotalAfter(entries) ==
  LET total[i \in 0..Len(entries)] ==
        IF i = 0 THEN 0 ELSE total[i - 1] + entries[i].size
  IN  total

CompressionTooHigh(e) == e.packed > 0 /\ e.size > MaxCompressionRatio * e.packed

EntryRefusedWithoutTotal(entries, i) ==   \* mutant: only single entries are limited
  LET e == entries[i]
  IN  ~e.safe \/ e.link \/ e.size > MaxEntryBytes \/ CompressionTooHigh(e)

EntryRefused(entries, i) ==
  LET e == entries[i]
  IN  \/ ~e.safe
      \/ e.link
      \/ e.size > MaxEntryBytes
      \/ CompressionTooHigh(e)
      \/ TotalAfter(entries)[i] > MaxUncompressedBytes

\* An archive that validate_archive_bytes lets pass.
Accepted(entries) ==
  /\ Len(entries) <= MaxArchiveEntries
  /\ \A i \in DOMAIN entries : ~EntryRefused(entries, i)
  /\ \A i, j \in DOMAIN entries : entries[i].top = entries[j].top

PackedSize(entries) == FoldLeft(LAMBDA n, e : n + e.packed, 0, entries)

\* zip_local_repo: the entries of the archive, or Refused.
ZipLocalRepo(d) ==
  IF GitIncludedFiles(d) = Refused \/ ZippedFiles(d) = {} THEN Refused
  ELSE LET entries == SetToSeq({ZipEntry(f) : f \in ZippedFiles(d)})
       IN  IF PackedSize(entries) <= MaxArchiveBytes /\ Accepted(entries)
           THEN entries ELSE Refused

-----------------------------------------------------------------------------
(* Properties.                                                              *)

\* Whatever git does, or does not do, for a directory that has ignore rules,
\* no ignored file is in its archive; no secret, no link and nothing below a
\* skipped directory is in any archive (zip_local_repo).  A plain directory
\* without a .gitignore has no rules.
NothingUnwantedIsZipped(d, entries) ==
  \A i \in DOMAIN entries : \E f \in d.files :
    /\ f.id = entries[i].file
    /\ ~IsSecretFile(f) /\ ~f.link /\ ~f.pruned
    /\ d.repo \/ HasGitignore(d) => f.status \in {"tracked", "untracked"}

\* An archive that is accepted unpacks to no more than the limits allow, in all
\* and file by file, links and climbing names excluded; and one that is within
\* them, equality included, is not refused (validate_archive_bytes).  A file
\* that packs to nothing has no ratio: the other limits hold it.
LimitsAreExact(entries) ==
  LET Sized(P(_)) == \A i \in DOMAIN entries : P(entries[i])
      unpacked == FoldLeft(LAMBDA n, e : n + e.size, 0, entries)
      Fits(e) == /\ e.safe /\ ~e.link /\ e.size <= MaxEntryBytes
                 /\ e.packed = 0 \/ e.size <= MaxCompressionRatio * e.packed
  IN  Accepted(entries) <=>
        /\ Sized(Fits)
        /\ unpacked <= MaxUncompressedBytes
        /\ Len(entries) <= MaxArchiveEntries
        /\ Cardinality({entries[i].top : i \in DOMAIN entries}) <= 1
=============================================================================
