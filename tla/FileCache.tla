------------------------------ MODULE FileCache ------------------------------
(***************************************************************************)
(* The file caches: WorkflowParseCache behind WorkflowParser (a record per *)
(* kind of source and content), AdapterMetadataCache (a record per adapter *)
(* and version).  A record is a file written in place: a process that dies *)
(* meanwhile leaves it torn.  Processes share the directory.               *)
(***************************************************************************)
EXTENDS Naturals, FiniteSets

CONSTANTS CacheSource,   \* kinds of source
          Content,       \* contents
          MaxCacheCalls  \* bound: calls on the cache

VARIABLES
  cacheFile,  \* cacheFile[k]: the content whose record the file holds, Missing or TornFile
  lookup,     \* the last lookup by content: what was asked for, what was given
  cacheCalls  \* calls so far

cacheVars == <<cacheFile, lookup, cacheCalls>>

Missing == <<"missing">>
TornFile == <<"torn">>

\* buildKey: the source and the hash of the content.
CacheKey_SourceOnly(source, content) == <<source, CHOOSE c \in Content : TRUE>>
CacheKey(source, content) == <<source, content>>
CacheKeys == CacheSource \X Content

CacheTypeOK ==
  /\ cacheFile \in [CacheKeys -> (CacheSource \X Content) \cup {Missing, TornFile}]
  /\ lookup \in [asked : (CacheSource \X Content) \cup {Missing},
                 given : (CacheSource \X Content) \cup {Missing}]
  /\ cacheCalls \in 0 .. MaxCacheCalls

CacheInit ==
  /\ cacheFile = [k \in CacheKeys |-> Missing]
  /\ lookup = [asked |-> Missing, given |-> Missing]
  /\ cacheCalls = 0

CountsCacheCall == cacheCalls < MaxCacheCalls /\ cacheCalls' = cacheCalls + 1

Whole(k) == cacheFile[k] \notin {Missing, TornFile}

\* parse with a cache: what load gives, if the file can be read; or else the
\* content is parsed and saved.  A write that fails is ignored, and one that is
\* cut off by a crash leaves a torn file and no answer.
Hit(source, content) ==
  LET k == CacheKey(source, content)
  IN /\ CountsCacheCall /\ Whole(k)
     /\ lookup' = [asked |-> <<source, content>>, given |-> cacheFile[k]]
     /\ UNCHANGED cacheFile

Miss(source, content, saved) ==
  LET k == CacheKey(source, content)
  IN /\ CountsCacheCall /\ ~Whole(k)
     /\ lookup' = [asked |-> <<source, content>>, given |-> <<source, content>>]
     /\ cacheFile' = IF saved THEN [cacheFile EXCEPT ![k] = <<source, content>>] ELSE cacheFile

DiesSaving(source, content) ==
  LET k == CacheKey(source, content)
  IN /\ CountsCacheCall /\ ~Whole(k)
     /\ cacheFile' = [cacheFile EXCEPT ![k] = TornFile]
     /\ UNCHANGED lookup

\* delete, clear
Delete(source, content) ==
  /\ CountsCacheCall
  /\ cacheFile' = [cacheFile EXCEPT ![CacheKey(source, content)] = Missing]
  /\ UNCHANGED lookup

Clear ==
  /\ CountsCacheCall
  /\ cacheFile' = [k \in CacheKeys |-> Missing]
  /\ UNCHANGED lookup

\* list: one torn file and nothing is listed.
ListedKeys ==
  IF \E k \in CacheKeys : cacheFile[k] = TornFile THEN {}
  ELSE {cacheFile[k] : k \in {k \in CacheKeys : Whole(k)}}

CacheNext ==
  \/ \E source \in CacheSource, content \in Content :
       \/ Hit(source, content) \/ DiesSaving(source, content) \/ Delete(source, content)
       \/ \E saved \in BOOLEAN : Miss(source, content, saved)
  \/ Clear

CacheSpec == CacheInit /\ [][CacheNext]_cacheVars

-----------------------------------------------------------------------------
\* The cache is not seen: what is given is what the content parses to, whoever
\* wrote the file and whatever became of the content since; what is listed is
\* in the cache under its own key.
CacheSafe ==
  /\ lookup.given = lookup.asked
  /\ \A r \in ListedKeys : cacheFile[CacheKey(r[1], r[2])] = r
  /\ \A k, l \in CacheKeys : Whole(k) /\ Whole(l) /\ k # l => cacheFile[k] # cacheFile[l]
=============================================================================
