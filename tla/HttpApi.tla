------------------------------ MODULE HttpApi -------------------------------
(***************************************************************************)
(* The handlers of the HTTP transport (HTTP/3 serves the same mux).        *)
(***************************************************************************)
EXTENDS RequestSteps

\* Mutant: the middleware asks for the mode after the handler has run.
guardWriteLate(handler) == <<Audited>> \o handler \o <<Mode>>
\* The middleware of the routes that write.
guardWrite(handler) == <<Mode, Audited>> \o handler

(***************************************************************************)
(* Documents.                                                              *)
(***************************************************************************)
handleAdd == Decoded \o <<Forbidden, Invalid>> \o AddDocument({"rev"})
handleGet == Decoded \o <<Forbidden, NotFound, Failed, Unless("expired"), Maybe(<<Tell({"temporal"})>>), ShowFresh>>
handleSearch == <<BadInput, Forbidden, Failed, ShowFresh>>
\* The export asks this server's own /v1/search.
handleExport == <<BadInput, Forbidden, OneOf(<<<<ShowFresh>>, <<Refuse("input")>>>>)>>
handleBackup == <<Forbidden, BadInput, Failed>>
\* The database is closed before it is known that the file can be copied and opened.
handleRestore == Decoded \o <<Forbidden, BadInput, Tell({"close"}), Failed>>
                 \o <<Commit({"docs"}, {}), Failed, Tell({"open"}), Tell({"rotate"})>>
handleTruncate == Decoded \o <<Forbidden>> \o Txn({}, {"rev"}) \o <<FlushTo({"rev"})>>
handleHealth == <<Unless("warming"), Failed>>
handleComplianceStatus == <<>>
handleChecksum == <<BadMethod, BadInput, Forbidden>>
handleDelete == Decoded \o <<Forbidden>> \o DeleteDocumentInternal
\* A document that cannot be deleted is counted, the others are deleted.
handleDeleteBatch == <<BadInput, BadInput, BadInput, Forbidden, Each(<<Maybe(DocumentDeleted)>>)>>
\* Only the geo index and the configuration follow the documents.
handleDeleteCollection ==
  Decoded \o <<Forbidden>> \o Txn({}, Document)
  \o <<FlushTo(Document), Effort({"colmeta"}), Effort({"geo"})>>
handleUpdate ==
  <<BadMethod, BadInput, BadInput, BadInput, Forbidden, Invalid, NotFound, Failed,
    Commit({"docs", "rev"}, {"idxmeta"}), FlushTo(Document),
    When("content", <<Tell({"embedding"})>>), When("expiry", <<Effort({"ttl"})>>),
    When("content", <<Effort({"fts"})>>), Effort({"geo"}), Tell({"webhooks", "triggers"})>>
handleDocMeta == <<BadMethod, BadInput, Forbidden, NotFound, Failed, Unless("expired"), ShowFresh>>
handleMetaKeys == <<BadMethod, BadInput, Forbidden>>
handleStats == <<Forbidden, Failed>>
handleAddBatch ==
  <<BadMethod>> \o Decoded \o AllHooks \o <<Maybe(<<Done>>)>> \o ProcessBatchWithDocs \o FirePostBatchHooks
\* The document is stored as it is, whatever the collection's encryption says.
handleSetTTL ==
  Decoded \o <<NotFound>> \o Txn({"docs"}, {}) \o <<Tell({"plain"}), FlushTo({"docs"}), Effort({"ttl"})>>
handleRevisions == <<BadMethod>> \o Decoded \o <<Forbidden, Failed, ShowAny>>
handleRevisionRestore == <<BadMethod>> \o Decoded \o <<Forbidden, NotFound>> \o AddWithoutTTL({"rev"})

(***************************************************************************)
(* Bulk ingest jobs, whose documents are written later by the job's worker.*)
(***************************************************************************)
handleBulkIngestSubmit ==
  <<BadMethod, Disabled>> \o Decoded \o <<BadInput>> \o Txn({"bulkjobs"}, {}) \o <<Full>>
handleBulkIngestStatus ==
  <<Disabled, BadInput>>
  \o Methods(<< <<NotFound>>, <<NotFound, Unless("settled")>> \o Txn({"bulkjobs"}, {}) >>)
handleBulkIngestList == <<BadMethod, Disabled, Failed>>

(***************************************************************************)
(* Registries: schemas, webhooks, curation rules, collection settings.     *)
(***************************************************************************)
handleSchemaSet == Decoded \o <<BadInput, Invalid>> \o Save({"schemas"})
handleSchemaGet == Decoded
handleSchemaDelete == Decoded \o Save({"schemas"})
handleSchemaList == <<>>
handleValidate == Decoded
WebhooksGet == <<>>
WebhooksPost == <<GlobalMode, BadInput, BadInput>> \o Save({"webhooks"})
handleWebhooks == <<Disabled>> \o Methods(<<WebhooksGet, WebhooksPost>>)
handleWebhookDelete == <<Disabled>> \o Decoded \o <<NotFound>> \o Save({"webhooks"})
handleCurationGet ==
  <<Disabled, OneOf(<< <<NotFound, Forbidden, Done>>, <<Forbidden, Done>>, <<Forbidden>> >>)>>
handleCurationCreate == <<GlobalMode, Disabled, BadInput, Forbidden, Invalid>> \o Save({"curation"})
handleCurationUpdate ==
  <<GlobalMode, Disabled>> \o Decoded \o <<NotFound, Forbidden, Invalid>> \o Save({"curation"})
handleCurationDelete == <<GlobalMode, Disabled, BadInput, NotFound, Forbidden>> \o Save({"curation"})
handleCuration ==
  Methods(<<handleCurationGet, handleCurationCreate, handleCurationUpdate, handleCurationDelete>>)
handleCollectionConfigGet == <<BadInput, Forbidden>>
handleCollectionConfigSet == <<GlobalMode>> \o Decoded \o <<Forbidden, Invalid>> \o Save({"colmeta"})
handleCollectionConfigDelete == <<GlobalMode, BadInput, Forbidden>> \o Save({"colmeta"})
handleCollectionConfig ==
  Methods(<<handleCollectionConfigGet, handleCollectionConfigSet, handleCollectionConfigDelete>>)
handleCollectionConfigList == <<Forbidden>>

(***************************************************************************)
(* Geo searches: the points are those of the index, the documents those of *)
(* the store, and a filter on metadata that nothing meets answers at once. *)
(***************************************************************************)
hydrateGeoResults == <<ShowAny>>
GeoFiltered == <<Unless("loading"), Maybe(<<Done>>)>>
handleGeoSearch == Decoded \o <<BadInput, BadInput, BadInput>> \o GeoFiltered
                   \o <<Unless("loading")>> \o hydrateGeoResults
handleGeoEncode == Decoded \o <<BadInput>>
handleGeoDecode == Decoded \o <<BadInput, BadInput>>
handleGeoWithin == Decoded \o <<BadInput>> \o GeoFiltered \o hydrateGeoResults
handleGeoPolygon == Decoded \o <<BadInput, BadInput>> \o GeoFiltered \o hydrateGeoResults
\* The rebuilt index replaces the old one before the second one is rebuilt.
handleGeoReindex ==
  <<BadInput, Disabled, Each(<<Failed, Tell({"postcodes"})>>), Failed, Tell({"geoindex"}), Failed,
    Tell({"geohash"})>>
handleGeoStats == <<Maybe(<<Done>>)>>

(***************************************************************************)
(* Searches.                                                               *)
(***************************************************************************)
handleVectorSearch ==
  Decoded \o <<BadInput, BadInput, BadInput, Unless("loading"), Failed, Maybe(<<Done>>), ShowAny>>
handleVectorReindex == Decoded \o <<Disabled, Failed>> \o VectorsRebuilt
handleVectorStats == <<>>
handleVectorProjection == Decoded \o <<Forbidden, Failed, Maybe(<<Done>>), Maybe(<<Done>>), ShowAny>>
handleFTS == Decoded \o <<Disabled, Maybe(<<Done>>), BadInput, Failed, Failed, ShowFresh>>
handleFTSReindex == Decoded \o <<Disabled, Each(<<Effort({"fts"})>>)>>
handleFTSLanguages == <<Maybe(<<Done>>)>>
handleAutocomplete == <<BadMethod, Disabled, BadInput, Maybe(<<Done>>), Failed>>
handleHybridSearch ==
  Decoded \o <<BadInput, BadInput, Maybe(<<Unless("loading"), BadInput, Maybe(<<Done>>)>>), Failed,
               Failed, ShowFresh>>
handleCrossSearch ==
  Decoded \o <<BadInput, Each(<<Forbidden>>), Forbidden, BadInput, Unless("loading"),
               OneOf(<< <<>>, <<BadInput, NotFound>>, <<Failed>> >>), ShowAny>>
handleFindDuplicates == Decoded \o <<Forbidden, BadInput, Failed, ShowAny>>
handleAggregate == <<BadMethod, BadInput, Forbidden, BadInput, ShowAny>>
handleClassify == <<BadMethod, BadInput, Forbidden>> \o ClassifyDocument

(***************************************************************************)
(* Ingest, uploads and imports.                                            *)
(***************************************************************************)
handleIngest == <<BadMethod>> \o Decoded \o <<Maybe(<<Done>>)>> \o IngestDocuments
ProcessUploadedFile == <<Unless("size"), Failed, Unless("size"), BadInput, BadInput, Invalid>> \o AddDocument({"rev"})
handleUpload ==
  <<BadMethod>> \o Decoded \o <<Forbidden, BadInput, BadInput,
    OneOf(<<ProcessUploadedFile, <<Each(<<Maybe(DocumentAdded({"rev"}))>>)>> >>)>>
handleImportURL == Decoded \o <<BadInput, Failed>> \o AddDocument({"rev"})
\* A batch that fails is counted; what was imported before the size limit stays.
WikiBatch == CommitBatch \o FirePostBatchHooks
handleWikiImport ==
  <<BadMethod, BadInput, BadInput, BadInput, Forbidden,
    Note({"skip_embeddings", "skip_webhooks"}, {}), Each(<<Maybe(WikiBatch)>>), Unless("size")>>

(***************************************************************************)
(* Embedding settings, automations, encryption, temporal events.           *)
(***************************************************************************)
handleListEmbeddingConfigs == <<Failed>>
handleCreateEmbeddingConfig == <<GlobalMode>> \o Decoded \o <<BadInput, BadInput>> \o Save({"embedding_configs"})
handleGetEmbeddingConfig == <<NotFound>>
handleUpdateEmbeddingConfig == <<GlobalMode>> \o Decoded \o <<BadInput>> \o Save({"embedding_configs"})
handleDeleteEmbeddingConfig == <<GlobalMode, NotFound, Unless("default")>> \o Save({"embedding_configs"})
handleEmbeddingConfigs ==
  <<Forbidden>> \o Methods(<<handleListEmbeddingConfigs, handleCreateEmbeddingConfig>>)
handleEmbeddingConfigDetail ==
  <<Forbidden, BadInput>>
  \o Methods(<<handleGetEmbeddingConfig, handleUpdateEmbeddingConfig, handleDeleteEmbeddingConfig>>)
\* The worker of the old provider is stopped and one of the new provider started.
InitializeEmbeddingFromConfig == <<Tell({"provider"}), Tell({"worker"})>>
handleSetDefaultEmbeddingConfig ==
  <<BadMethod, GlobalMode, Forbidden, BadInput, NotFound>> \o Save({"embedding_configs"})
  \o InitializeEmbeddingFromConfig
handleAutomation ==
  <<Disabled, Forbidden>>
  \o Methods(<< <<>>, <<GlobalMode, BadInput, Invalid>> \o Save({"automation"}) \o <<When("cron", <<Tell({"cron"})>>)>> >>)
handleAutomationTest == <<BadMethod, NotFound, BadInput, Failed>>
handleAutomationDetail ==
  <<Disabled, Forbidden, BadInput, Maybe(Append(handleAutomationTest, Done))>>
  \o Methods(<< <<NotFound>>,
                <<GlobalMode, BadInput, NotFound, Invalid>> \o Save({"automation"}) \o <<When("cron", <<Tell({"cron"})>>)>>,
                <<GlobalMode, NotFound>> \o Save({"automation"}) \o <<When("cron", <<Tell({"cron"})>>)>> >>)
handleAutomationLogs == <<BadMethod, Disabled, Forbidden, Failed>>
handleEncryptionStatus == <<BadMethod, Forbidden, Maybe(<<Done>>), Failed>>
handleEncryptionRotate ==
  <<BadMethod, GlobalMode, Forbidden, Disabled, BadInput, Unless("running"), Tell({"rotation"}), Tell({"audit"})>>
handleEncryptionJob == <<BadMethod, Forbidden, Disabled, Maybe(<<Done>>), NotFound>>
handleTemporalQuery == Decoded \o <<Forbidden, Disabled, Failed>>
handleTemporalHot == Decoded \o <<Forbidden, Disabled, Failed, ShowAny>>
handleTemporalHistogram == Decoded \o <<Forbidden, Disabled, Failed>>

(***************************************************************************)
(* Word lists.                                                             *)
(***************************************************************************)
handleSpellSuggest == Decoded \o <<Maybe(<<Done>>)>>
handleSpellCleanup == Decoded \o <<Maybe(<<Done>>)>>
\* Neither the mode is asked for nor the binlog told; a word that fails ends the loop.
DictionaryChange == Decoded \o <<Forbidden, Each(Txn({"spelldict"}, {}))>>
handleSpellDictionary ==
  <<Disabled>> \o Methods(<< <<BadInput, Forbidden, Failed>>, DictionaryChange, DictionaryChange >>)
handleStopWordsList == <<BadInput>>
handleStopWordsAdd == Decoded \o <<BadInput>> \o Save({"stopwords"})
handleStopWordsDelete == Decoded \o <<BadInput, Each(<<Effort({"stopwords"})>>)>>
handleStopWords == <<Disabled>> \o Methods(<<handleStopWordsList, handleStopWordsAdd, handleStopWordsDelete>>)
handleSynonymsList == <<BadInput>>
handleSynonymsSet == Decoded \o <<BadInput>> \o Save({"synonyms"})
handleSynonymsDelete == Decoded \o Save({"synonyms"})
handleSynonyms == <<Disabled>> \o Methods(<<handleSynonymsList, handleSynonymsSet, handleSynonymsDelete>>)

(***************************************************************************)
(* Conversations.                                                          *)
(***************************************************************************)
handleMemorySessionCreate == Decoded \o AddDocument({"rev"})
\* The session's document is rewritten in its bucket by a goroutine that nobody waits
\* for, which appends nothing to the binlog and calls no hook.
touchSession == <<Maybe(<<Commit({"docs"}, {})>>)>>
handleMemoryMessageAdd == Decoded \o <<BadInput, NotFound>> \o AddWithoutTTL({"rev"}) \o touchSession
loadRecallResults == <<ShowAny>>
loadDocByID == <<ShowAny>>
memoryRecallSemantic == <<OneOf(<<loadRecallResults, <<>>>>)>>
memoryRecallKeyword == <<OneOf(<<loadDocByID, <<>>>>)>>
memoryRecallHybrid == memoryRecallSemantic \o memoryRecallKeyword
handleMemoryRecall ==
  Decoded \o <<Maybe(<<Done>>), OneOf(<<memoryRecallSemantic, memoryRecallKeyword, memoryRecallHybrid>>)>>
loadSessionMessages == <<ShowFresh>>
handleMemorySummarize == Decoded \o loadSessionMessages \o <<NotFound>> \o AddWithoutTTL({"rev"})
handleMemorySessionsList == <<BadInput, ShowFresh, Failed>>
handleMemoryHistory == Decoded \o loadSessionMessages

(***************************************************************************)
(* Users, keys and the server itself.                                      *)
(***************************************************************************)
handleAuthLogin == <<BadMethod, BadInput, OneOf(<< <<Tell({"audit"})>>, <<Tell({"audit"}), Refuse("access")>>, <<Refuse("failed")>> >>)>>
handleAuthRegister == <<BadMethod, Forbidden, BadInput, Unless("exists"), Invalid>> \o Txn({"auth"}, {})
handleAuthAPIKey == <<BadMethod, Forbidden, BadInput>> \o Txn({"auth"}, {})
handleAuthAPIKeysList == <<BadMethod, Forbidden, Failed>>
handleAuthAPIKeyDelete == <<BadMethod, Forbidden, BadInput, NotFound, Forbidden>> \o Txn({"auth"}, {})
handleAuthMe == <<BadMethod, Forbidden, NotFound>>
handleAuthPermissions == <<Forbidden>> \o Methods(<< <<BadInput>> \o Txn({"auth"}, {}), <<BadInput>> >>)
handleAuthDeleteUser == <<BadMethod, Forbidden, BadInput, NotFound>> \o Txn({"auth"}, {})
handleAuthUsersList == <<BadMethod, Forbidden>>
handleAuthGroups == <<Forbidden>> \o Methods(<< <<>>, Decoded \o <<Unless("exists")>> \o Txn({"auth"}, {}) >>)
handleAuthGroupDetail ==
  <<Forbidden, BadInput>>
  \o Methods(<< <<NotFound>>, <<BadInput, NotFound>> \o Txn({"auth"}, {}), <<NotFound>> \o Txn({"auth"}, {}) >>)
handleAuthGroupPermissions == <<Forbidden>> \o Methods(<< <<BadInput>>, <<BadInput, NotFound>> \o Txn({"auth"}, {}) >>)
handleMCPAPIKeyCreate == <<Disabled, Forbidden, BadInput>> \o Txn({"mcpkeys"}, {}) \o <<Tell({"mcpauth"})>>
handleMCPAPIKeyList == <<Disabled, Forbidden, Failed>>
handleMCPAPIKeyDelete == <<Disabled, Forbidden, BadInput, NotFound>> \o Txn({"mcpkeys"}, {}) \o <<Tell({"mcpauth"})>>
handleMCPAPIKeyDisable == <<Disabled, Forbidden, BadInput, NotFound>> \o Txn({"mcpkeys"}, {}) \o <<Tell({"mcpauth"})>>
handleMCPAPIKeys == Methods(<<handleMCPAPIKeyList, handleMCPAPIKeyCreate, handleMCPAPIKeyDelete>>)
handleAudit == <<Disabled, Forbidden, Failed>>
handleAuditExporters == <<BadMethod, Disabled, Forbidden>>
handleReplicationStatus == <<>>
handleSystemInfo == <<BadMethod>>
handleConfig == <<BadMethod>>
handleMCPConfig == <<BadMethod>>
handleEndpoints == <<BadMethod>>

(***************************************************************************)
(* The mux.                                                                *)
(***************************************************************************)
HttpDocuments ==
  [http_add |-> guardWrite(handleAdd), http_add_batch |-> guardWrite(handleAddBatch),
   http_bulk_submit |-> guardWrite(handleBulkIngestSubmit), http_bulk_job |-> handleBulkIngestStatus,
   http_bulk_jobs |-> handleBulkIngestList, http_ingest |-> guardWrite(handleIngest),
   http_get |-> handleGet, http_search |-> handleSearch, http_export |-> handleExport,
   http_backup |-> handleBackup, http_restore |-> guardWrite(handleRestore),
   http_truncate |-> guardWrite(handleTruncate), http_delete |-> guardWrite(handleDelete),
   http_delete_batch |-> guardWrite(handleDeleteBatch),
   http_delete_collection |-> guardWrite(handleDeleteCollection), http_stats |-> handleStats,
   http_upload |-> guardWrite(handleUpload), http_import_url |-> guardWrite(handleImportURL),
   http_import_wiki |-> guardWrite(handleWikiImport), http_set_ttl |-> guardWrite(handleSetTTL),
   http_meta_keys |-> handleMetaKeys, http_checksum |-> handleChecksum,
   http_update |-> guardWrite(handleUpdate), http_doc_meta |-> handleDocMeta,
   http_revisions |-> handleRevisions, http_revision_restore |-> guardWrite(handleRevisionRestore)]
HttpSearches ==
  [http_vector_search |-> handleVectorSearch, http_vector_reindex |-> guardWrite(handleVectorReindex),
   http_vector_stats |-> handleVectorStats, http_vector_projection |-> handleVectorProjection,
   http_geo_search |-> handleGeoSearch, http_geo_within |-> handleGeoWithin,
   http_geo_polygon |-> handleGeoPolygon, http_geo_reindex |-> guardWrite(handleGeoReindex),
   http_geo_stats |-> handleGeoStats, http_geo_encode |-> handleGeoEncode, http_geo_decode |-> handleGeoDecode,
   http_fts |-> handleFTS, http_fts_reindex |-> guardWrite(handleFTSReindex),
   http_fts_languages |-> handleFTSLanguages, http_autocomplete |-> handleAutocomplete,
   http_hybrid |-> handleHybridSearch, http_cross |-> handleCrossSearch,
   http_duplicates |-> handleFindDuplicates, http_aggregate |-> handleAggregate,
   http_classify |-> handleClassify, http_temporal_query |-> handleTemporalQuery,
   http_temporal_hot |-> handleTemporalHot, http_temporal_histogram |-> handleTemporalHistogram,
   http_spell_suggest |-> handleSpellSuggest, http_spell_cleanup |-> handleSpellCleanup]
HttpSettings ==
  [http_embedding_configs |-> handleEmbeddingConfigs, http_embedding_config |-> handleEmbeddingConfigDetail,
   http_embedding_default |-> guardWrite(handleSetDefaultEmbeddingConfig),
   http_synonyms |-> handleSynonyms, http_stopwords |-> handleStopWords, http_dictionary |-> handleSpellDictionary,
   http_webhooks |-> handleWebhooks, http_webhook_delete |-> guardWrite(handleWebhookDelete),
   http_automations |-> handleAutomation, http_automation |-> handleAutomationDetail,
   http_automation_logs |-> handleAutomationLogs, http_schema_set |-> guardWrite(handleSchemaSet),
   http_schema_get |-> handleSchemaGet, http_schema_delete |-> guardWrite(handleSchemaDelete),
   http_schema_list |-> handleSchemaList, http_validate |-> handleValidate,
   http_collection_config |-> handleCollectionConfig, http_collection_configs |-> handleCollectionConfigList,
   http_curation |-> handleCuration, http_encryption_status |-> handleEncryptionStatus,
   http_encryption_rotate |-> handleEncryptionRotate, http_encryption_job |-> handleEncryptionJob]
HttpServer ==
  [http_health |-> handleHealth, http_compliance |-> handleComplianceStatus, http_audit |-> handleAudit,
   http_audit_exporters |-> handleAuditExporters, http_replication |-> handleReplicationStatus,
   http_system |-> handleSystemInfo, http_config |-> handleConfig, http_mcp_config |-> handleMCPConfig,
   http_mcp_keys |-> guardWrite(handleMCPAPIKeys), http_mcp_key_disable |-> guardWrite(handleMCPAPIKeyDisable),
   http_endpoints |-> handleEndpoints, http_login |-> handleAuthLogin, http_register |-> handleAuthRegister,
   http_api_key |-> handleAuthAPIKey, http_api_keys |-> handleAuthAPIKeysList,
   http_api_key_delete |-> handleAuthAPIKeyDelete, http_me |-> handleAuthMe,
   http_permissions |-> handleAuthPermissions, http_user_delete |-> handleAuthDeleteUser,
   http_users |-> handleAuthUsersList, http_groups |-> handleAuthGroups, http_group |-> handleAuthGroupDetail,
   http_group_permissions |-> handleAuthGroupPermissions]
HttpMemory ==
  [http_memory_session |-> guardWrite(handleMemorySessionCreate), http_memory_message |-> guardWrite(handleMemoryMessageAdd),
   http_memory_recall |-> handleMemoryRecall, http_memory_summarize |-> guardWrite(handleMemorySummarize),
   http_memory_sessions |-> handleMemorySessionsList, http_memory_history |-> handleMemoryHistory]
=============================================================================
