---------------------------- MODULE DirectClient ----------------------------
(***************************************************************************)
(* DirectClient, the in-process client behind the MCP tools and the        *)
(* GraphQL resolvers.  It asks neither for the mode nor for permissions,   *)
(* and leaves no audit record: its callers do, or nobody does.             *)
(***************************************************************************)
EXTENDS RequestSteps

(***************************************************************************)
(* Documents.                                                              *)
(***************************************************************************)
Health == <<Failed>>
Stats == <<Failed>>
Add == AddWithoutTTL({"rev"})
AddBatch == ProcessBatch
UpdateBatch == ProcessBatchUpdate
DeleteBatch == ProcessBatchDelete
Get == <<NotFound, Failed, Unless("expired"), ShowFresh>>
Search == <<Failed, ShowFresh>>
Delete == DeleteDocumentInternal
\* The binlog, the indexes and the collection's configuration are left as they are.
DeleteCollection == Txn({}, Document)
Export == <<Failed, ShowAny>>
Backup == <<BadInput, Failed>>
\* The database is closed before it is known that the file can be copied and opened.
Restore == <<BadInput, BadInput, Tell({"close"}), Failed, Commit({"docs"}, {}), Failed, Tell({"open"})>>
Truncate == Txn({}, {"rev"})
\* Neither a revision nor the metadata index, and no one is told.
UpdateDocument == <<BadInput, BadInput, NotFound>> \o Txn({"docs"}, {})
GetDocumentMeta == <<BadInput, NotFound, Failed, ShowAny>>
Classify == ClassifyDocument
ImportURL == <<BadInput, BadInput, Failed>> \o AddDocument({"rev"})
\* The document is stored as it is, whatever the collection's encryption says.
SetTTL == <<BadInput, NotFound>> \o Txn({"docs"}, {}) \o <<Tell({"plain"}), Effort({"ttl"})>>
ListRevisions == <<Failed, ShowAny>>
RestoreRevision == <<NotFound>> \o AddWithoutTTL({"rev"})
Ingest == IngestDocuments
GetMetaKeys == <<>>
GetChecksum == <<>>

(***************************************************************************)
(* Registries.                                                             *)
(***************************************************************************)
RegisterWebhook == <<Disabled, BadInput>> \o Save({"webhooks"})
ListWebhooks == <<Disabled>>
DeleteWebhook == <<Disabled>> \o Save({"webhooks"})
SetSchema == <<Disabled, Invalid>> \o Save({"schemas"})
GetSchema == <<Disabled>>
DeleteSchema == <<Disabled>> \o Save({"schemas"})
ListSchemas == <<Disabled>>
ValidateDocument == <<>>
ListSynonyms == <<Disabled>>
SetSynonym == <<Disabled>> \o Save({"synonyms"})
DeleteSynonym == <<Disabled>> \o Save({"synonyms"})
ListStopWords == <<Disabled>>
AddStopWords == <<Disabled>> \o Save({"stopwords"})
\* Every word is tried, and an error is reported at the end.
DeleteStopWords == <<Disabled, Each(<<Effort({"stopwords"})>>), Failed>>
\* The scheduler is not told of a rule that runs on a schedule.
ListAutomation == <<Disabled>>
CreateAutomation == <<Disabled, Invalid>> \o Save({"automation"})
GetAutomation == <<Disabled, NotFound>>
UpdateAutomation == <<Disabled, NotFound, Invalid>> \o Save({"automation"})
DeleteAutomation == <<Disabled>> \o Save({"automation"})
TestAutomation == <<Disabled, NotFound, BadInput, Failed>>
ListAutomationLogs == <<Disabled, Failed>>
GetCollectionConfig == <<>>
SetCollectionConfig == <<BadInput>> \o Save({"colmeta"})
ListCollectionConfigs == <<>>
ListCurationRules == <<Disabled>>
CreateCurationRule == <<Disabled, BadInput, Invalid>> \o Save({"curation"})
UpdateCurationRule == <<Disabled, BadInput, NotFound, Invalid>> \o Save({"curation"})
DeleteCurationRule == <<Disabled, NotFound>> \o Save({"curation"})

(***************************************************************************)
(* Searches and the indexes behind them.                                   *)
(***************************************************************************)
VectorSearch == <<BadInput, BadInput, BadInput, Unless("loading"), Failed, Maybe(<<Done>>), BadInput, ShowAny>>
VectorReindex == <<BadInput, Disabled, Failed>> \o VectorsRebuilt
VectorStats == <<>>
FTSSearch == <<BadInput, Disabled, BadInput, Failed, ShowFresh>>
FTSReindex == <<BadInput, Disabled, Each(<<Effort({"fts"})>>)>>
FTSLanguages == <<Maybe(<<Done>>)>>
HybridSearch == <<BadInput, Failed, Failed, ShowFresh>>
CrossSearch == <<BadInput, Unless("loading"), OneOf(<< <<BadInput, NotFound>>, <<Failed>>, <<Refuse("input")>> >>), ShowAny>>
FindDuplicates == <<Failed, ShowAny>>
Aggregate == <<BadInput, ShowAny>>
GeoSearch == <<BadInput, BadInput, BadInput, BadInput, Maybe(<<Done>>), Unless("loading"), ShowAny>>
GeoWithin == <<BadInput, BadInput>> \o GeoAnswered
GeoStats == <<Maybe(<<Done>>)>>
GeoEncode == <<BadInput, Failed>>
GeoDecode == <<BadInput, BadInput>>
=============================================================================
