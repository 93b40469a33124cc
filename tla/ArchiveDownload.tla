--------------------------- MODULE ArchiveDownload ---------------------------
(***************************************************************************)
(* download_github_zip of archive.py: the request for a zipball, the       *)
(* redirects it is led through, and the capped read of the body.  GitHub   *)
(* and the network are external: a server may redirect anywhere, declare   *)
(* any length, send any body, and the connection may break anywhere.       *)
(***************************************************************************)
EXTENDS Integers

CONSTANTS
  Cap,           \* MAX_ARCHIVE_BYTES
  ChunkBytes,    \* _DOWNLOAD_CHUNK_BYTES
  MaxBody,       \* bound: the longest body a server sends
  MaxRedirects   \* bound: redirects of one request (urllib stops at 10)

ASSUME DownloadAssumption ==
  /\ {Cap, MaxBody, MaxRedirects} \subseteq Nat
  /\ ChunkBytes \in Nat \ {0}

VARIABLES
  stage,      \* "idle", "asked", "reading", "validating", "returned" or "failed"
  hops,       \* redirects followed
  declared,   \* Content-Length, 0 when there is none that is a number
  body,       \* length of the body the server has for us
  sound,      \* that body is an archive validate_archive_bytes accepts
  total,      \* bytes read; those of the last chunk count before they are kept
  kept,       \* bytes in `chunks`
  tooLarge    \* the failure was the cap

downloadVars == <<stage, hops, declared, body, sound, total, kept, tooLarge>>

DownloadTypeOK ==
  /\ stage \in {"idle", "asked", "reading", "validating", "returned", "failed"}
  /\ {hops, declared, body, total, kept} \subseteq Nat
  /\ sound \in BOOLEAN /\ tooLarge \in BOOLEAN

DownloadInit ==
  /\ stage = "idle"
  /\ hops = 0 /\ declared = 0 /\ body = 0 /\ total = 0 /\ kept = 0
  /\ sound = FALSE /\ tooLarge = FALSE

\* A URL that is no GitHub repository is refused; others lead to the API host.
AskForZipball(isGitHub) ==
  /\ stage = "idle"
  /\ stage' = IF isGitHub THEN "asked" ELSE "failed"
  /\ UNCHANGED <<hops, declared, body, sound, total, kept, tooLarge>>

\* redirect_request: only https, and only hosts of the list.
FollowRedirect(isHttps, isListed) ==
  /\ stage = "asked"
  /\ hops < MaxRedirects
  /\ hops' = hops + 1
  /\ stage' = IF isHttps /\ isListed THEN "asked" ELSE "failed"
  /\ UNCHANGED <<declared, body, sound, total, kept, tooLarge>>

\* The headers arrive.  A Content-Length that is no number counts as none.
Respond(contentLength, length, isSound) ==
  /\ stage = "asked"
  /\ declared' = contentLength
  /\ body' = length
  /\ sound' = isSound
  /\ tooLarge' = (contentLength > Cap)
  /\ stage' = IF contentLength > Cap THEN "failed" ELSE "reading"
  /\ UNCHANGED <<hops, total, kept>>

\* One turn of the loop of _read_capped that gets bytes.
ReadChunkKeepsFirst(n) ==   \* mutant: the chunk is kept before it is counted
  /\ stage = "reading"
  /\ n \in 1..ChunkBytes /\ n <= body - total
  /\ total' = total + n /\ kept' = kept + n
  /\ IF total' > Cap
     THEN stage' = "failed" /\ tooLarge' = TRUE
     ELSE UNCHANGED <<stage, tooLarge>>
  /\ UNCHANGED <<hops, declared, body, sound>>

ReadChunk(n) ==
  /\ stage = "reading"
  /\ n \in 1..ChunkBytes /\ n <= body - total
  /\ total' = total + n
  /\ IF total' > Cap
     THEN stage' = "failed" /\ tooLarge' = TRUE /\ UNCHANGED kept
     ELSE kept' = kept + n /\ UNCHANGED <<stage, tooLarge>>
  /\ UNCHANGED <<hops, declared, body, sound>>

\* read() returns nothing: the body has ended, or the peer closed too early,
\* which http.client does not report.
EndOfBody ==
  /\ stage = "reading"
  /\ stage' = "validating"
  /\ UNCHANGED <<hops, declared, body, sound, total, kept, tooLarge>>

\* The central directory of an archive is its end: a part of one is no archive.
Validate ==
  /\ stage = "validating"
  /\ stage' = IF sound /\ kept = body THEN "returned" ELSE "failed"
  /\ UNCHANGED <<hops, declared, body, sound, total, kept, tooLarge>>

\* HTTPError, URLError, OSError.
DownloadFails ==
  /\ stage \in {"asked", "reading"}
  /\ stage' = "failed"
  /\ UNCHANGED <<hops, declared, body, sound, total, kept, tooLarge>>

DownloadNext ==
  \/ \E b \in BOOLEAN : AskForZipball(b)
  \/ \E https, listed \in BOOLEAN : FollowRedirect(https, listed)
  \/ \E declares, length \in 0..MaxBody, ok \in BOOLEAN : Respond(declares, length, ok)
  \/ \E n \in 1..ChunkBytes : ReadChunk(n)
  \/ EndOfBody
  \/ Validate
  \/ DownloadFails

-----------------------------------------------------------------------------
\* What is kept never passes the cap, not even for the last chunk, and a body
\* of exactly the cap is not refused: _read_capped counts before it keeps.
CapIsExact ==
  /\ kept <= Cap
  /\ tooLarge => body > Cap \/ declared > Cap
=============================================================================
