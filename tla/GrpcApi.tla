------------------------------ MODULE GrpcApi -------------------------------
(***************************************************************************)
(* The methods of the gRPC service.  Each asks for the mode itself and     *)
(* none leaves an audit record.                                            *)
(***************************************************************************)
EXTENDS RequestSteps

(***************************************************************************)
(* Documents.                                                              *)
(***************************************************************************)
Add == <<Mode, Forbidden, BadInput, Invalid, OneOf(<<AddWithoutTTL({"rev"}), AddWithoutTTL({})>>)>>
AddBatch == <<Mode, BadInput, Forbidden>> \o ProcessBatch
Ingest == <<Mode, BadInput, Forbidden, Maybe(<<Done>>)>> \o IngestDocuments
\* A cached document is answered as it is; one read from the store fills the cache.
Get == <<BadInput, Forbidden, Maybe(<<ShowAny, Done>>), NotFound, Failed, Tell({"readcache"}), ShowAny>>
Search == <<BadInput, Forbidden, Failed, ShowAny>>
Export == <<Forbidden, Refuse("unimplemented")>>
Backup == <<Forbidden, BadInput, Failed>>
\* copyFile writes another file and renames it over that of the database: a copy that
\* fails has changed nothing.  The database stays open, so that the restored file is
\* served after the next start only.
Restore == <<Mode, Forbidden, BadInput, BadInput, Failed, Commit({"docs"}, {})>>
Truncate == <<Mode, Forbidden, BadInput>> \o Txn({}, {"rev"})
Stats == <<Forbidden, Failed>>
UpdateDocument ==
  <<Mode, Forbidden, BadInput, BadInput, Invalid, NotFound, Failed,
    Commit({"docs", "rev"}, {"idxmeta"}), FlushTo(Document),
    When("content", <<Tell({"embedding"})>>), When("expiry", <<Effort({"ttl"})>>), Tell({"triggers"})>>
GetDocumentMeta == <<Forbidden, BadInput, NotFound, Failed, ShowFresh>>
DeleteDocument == <<Mode, Forbidden, BadInput>> \o DeleteDocumentInternal
DeleteCollection ==
  <<Mode, Forbidden, BadInput>> \o Txn({}, Document) \o <<FlushTo(Document), Effort({"colmeta"})>>
DeleteBatch == <<Mode, Forbidden, BadInput>> \o ProcessBatchDelete
UpdateBatch == <<Mode, Forbidden, BadInput>> \o ProcessBatchUpdate
ImportURL == <<Mode, Forbidden, BadInput, BadInput, Failed>> \o AddDocument({"rev"})
\* The document is stored as it is, and the binlog is not told.
SetTTL == <<Mode, Forbidden, BadInput, NotFound>> \o Txn({"docs"}, {}) \o <<Tell({"plain"}), Effort({"ttl"})>>
ListRevisions == <<BadInput, Forbidden, Failed, ShowAny>>
RestoreRevision == <<Mode, BadInput, Forbidden, NotFound>> \o AddWithoutTTL({"rev"})
GetMetaKeys == <<BadInput, Forbidden>>
GetChecksum == <<BadInput, Forbidden>>

(***************************************************************************)
(* Registries.                                                             *)
(***************************************************************************)
RegisterWebhook == <<Mode, Forbidden, Disabled, BadInput>> \o Save({"webhooks"})
ListWebhooks == <<Forbidden, Disabled>>
DeleteWebhook == <<Mode, Forbidden, Disabled, BadInput>> \o Save({"webhooks"})
SetSchema == <<Mode, Forbidden, BadInput, BadInput, Invalid>> \o Save({"schemas"})
GetSchema == <<Forbidden, BadInput>>
DeleteSchema == <<Mode, Forbidden, BadInput>> \o Save({"schemas"})
ListSchemas == <<Forbidden>>
ValidateDocument == <<Forbidden, BadInput>>
ListSynonyms == <<BadInput, Disabled>>
AddSynonym == <<Mode, BadInput, Disabled>> \o Save({"synonyms"})
DeleteSynonym == <<Mode, BadInput, Disabled>> \o Save({"synonyms"})
ListStopwords == <<BadInput, Disabled>>
AddStopwords == <<Mode, BadInput, Disabled>> \o Save({"stopwords"})
DeleteStopwords == <<Mode, BadInput, Disabled, Each(<<Effort({"stopwords"})>>)>>
CronReloaded == <<When("cron", <<Tell({"cron"})>>)>>
ListAutomation == <<Forbidden, Disabled>>
CreateAutomation == <<Mode, Forbidden, Disabled, BadInput, Invalid>> \o Save({"automation"}) \o CronReloaded
GetAutomation == <<Forbidden, Disabled, BadInput, NotFound>>
UpdateAutomation ==
  <<Mode, Forbidden, Disabled, BadInput, NotFound, Invalid>> \o Save({"automation"}) \o CronReloaded
DeleteAutomation == <<Mode, Forbidden, Disabled, BadInput>> \o Save({"automation"}) \o CronReloaded
TestAutomation == <<Forbidden, Disabled, BadInput, NotFound, BadInput, Failed, ShowAny>>
GetAutomationLogs == <<Forbidden, Disabled, Failed>>
GetCollectionConfig == <<BadInput, Forbidden, Disabled>>
SetCollectionConfig == <<Mode, BadInput, Forbidden, Disabled, BadInput>> \o Save({"colmeta"})
ListCollectionConfigs == <<Forbidden, Disabled>>
ListCurationRules == <<Disabled, Forbidden>>
CreateCurationRule == <<Mode, Disabled, BadInput, Forbidden, Invalid>> \o Save({"curation"})
UpdateCurationRule == <<Mode, Disabled, BadInput, NotFound, Forbidden, Invalid>> \o Save({"curation"})
DeleteCurationRule == <<Mode, Disabled, BadInput, NotFound, Forbidden>> \o Save({"curation"})

(***************************************************************************)
(* Searches and the indexes behind them.                                   *)
(***************************************************************************)
VectorSearch == <<Forbidden, BadInput, BadInput, BadInput, Unless("loading"), Failed, ShowAny>>
VectorReindex ==
  <<Mode, Forbidden, BadInput, Disabled, Failed>> \o VectorsRebuilt
VectorStats == <<Forbidden>>
FTS == <<Forbidden, BadInput, Disabled, BadInput, Failed, ShowFresh>>
FTSReindex == <<Mode, Forbidden, BadInput, Disabled, Failed, Each(<<Effort({"fts"})>>)>>
FTSLanguages == <<Maybe(<<Done>>)>>
HybridSearch == <<Forbidden, BadInput, Failed, Failed, ShowFresh>>
CrossSearch ==
  <<BadInput, BadInput, Each(<<Forbidden>>), Forbidden, BadInput, Unless("loading"),
    OneOf(<< <<>>, <<BadInput, NotFound>>, <<Failed>> >>), ShowAny>>
FindDuplicates == <<BadInput, Forbidden, BadInput, Failed, ShowAny>>
Classify == <<Forbidden, BadInput>> \o ClassifyDocument
GeoSearch == <<Forbidden, BadInput, BadInput, BadInput>> \o GeoAnswered
GeoWithin == <<Forbidden, BadInput, BadInput>> \o GeoAnswered
\* Only one of the two geo indexes is rebuilt.
GeoReindex == <<Mode, Forbidden, Disabled, Each(<<Failed, Tell({"postcodes"})>>), Failed, Tell({"geoindex"})>>
GeoEncode == <<BadInput, Failed>>
GeoDecode == <<BadInput, BadInput>>
GeoStats == <<Maybe(<<Done>>)>>

\* Declared by the protocol and implemented by no method of the server.
Unimplemented == <<Refuse("unimplemented")>>

(***************************************************************************)
(* The service.                                                            *)
(***************************************************************************)
GrpcServer ==
  [grpc_add |-> Add, grpc_add_batch |-> AddBatch, grpc_ingest |-> Ingest, grpc_get |-> Get,
   grpc_search |-> Search, grpc_export |-> Export, grpc_backup |-> Backup,
   grpc_restore |-> Restore, grpc_truncate |-> Truncate, grpc_stats |-> Stats,
   grpc_update_document |-> UpdateDocument, grpc_get_document_meta |-> GetDocumentMeta,
   grpc_delete_document |-> DeleteDocument, grpc_delete_collection |-> DeleteCollection,
   grpc_delete_batch |-> DeleteBatch, grpc_update_batch |-> UpdateBatch,
   grpc_import_url |-> ImportURL, grpc_set_ttl |-> SetTTL, grpc_list_revisions |-> ListRevisions,
   grpc_restore_revision |-> RestoreRevision, grpc_get_meta_keys |-> GetMetaKeys,
   grpc_get_checksum |-> GetChecksum, grpc_register_webhook |-> RegisterWebhook,
   grpc_list_webhooks |-> ListWebhooks, grpc_delete_webhook |-> DeleteWebhook,
   grpc_set_schema |-> SetSchema, grpc_get_schema |-> GetSchema,
   grpc_delete_schema |-> DeleteSchema, grpc_list_schemas |-> ListSchemas,
   grpc_validate_document |-> ValidateDocument, grpc_list_synonyms |-> ListSynonyms,
   grpc_add_synonym |-> AddSynonym, grpc_delete_synonym |-> DeleteSynonym,
   grpc_list_stopwords |-> ListStopwords, grpc_add_stopwords |-> AddStopwords,
   grpc_delete_stopwords |-> DeleteStopwords, grpc_list_automation |-> ListAutomation,
   grpc_create_automation |-> CreateAutomation, grpc_get_automation |-> GetAutomation,
   grpc_update_automation |-> UpdateAutomation, grpc_delete_automation |-> DeleteAutomation,
   grpc_test_automation |-> TestAutomation, grpc_get_automation_logs |-> GetAutomationLogs,
   grpc_get_collection_config |-> GetCollectionConfig,
   grpc_set_collection_config |-> SetCollectionConfig,
   grpc_list_collection_configs |-> ListCollectionConfigs,
   grpc_list_curation_rules |-> ListCurationRules,
   grpc_create_curation_rule |-> CreateCurationRule,
   grpc_update_curation_rule |-> UpdateCurationRule,
   grpc_delete_curation_rule |-> DeleteCurationRule, grpc_vector_search |-> VectorSearch,
   grpc_vector_reindex |-> VectorReindex, grpc_vector_stats |-> VectorStats, grpc_fts |-> FTS,
   grpc_fts_reindex |-> FTSReindex, grpc_fts_languages |-> FTSLanguages,
   grpc_hybrid_search |-> HybridSearch, grpc_cross_search |-> CrossSearch,
   grpc_find_duplicates |-> FindDuplicates, grpc_classify |-> Classify,
   grpc_geo_search |-> GeoSearch, grpc_geo_within |-> GeoWithin, grpc_geo_reindex |-> GeoReindex,
   grpc_geo_encode |-> GeoEncode, grpc_geo_decode |-> GeoDecode, grpc_geo_stats |-> GeoStats,
   grpc_spell_suggest |-> Unimplemented, grpc_spell_cleanup |-> Unimplemented,
   grpc_temporal_query |-> Unimplemented, grpc_temporal_hot |-> Unimplemented]
=============================================================================
