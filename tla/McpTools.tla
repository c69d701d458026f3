------------------------------ MODULE McpTools ------------------------------
(***************************************************************************)
(* The MCP tools and resources.  A tool turns its arguments into a request *)
(* of the direct client; mcpCallTool asks for the mode before the tools    *)
(* that are not annotated as read-only.                                    *)
(***************************************************************************)
EXTENDS DirectClient

(***************************************************************************)
(* mcp_tools_data.go                                                       *)
(***************************************************************************)
toolAddDocument == Add
toolSearchDocuments == Search
toolDeleteDocument == Delete
toolGetStats == Stats
toolAddBatch == Decoded \o AddBatch
toolDeleteBatch == Decoded \o DeleteBatch
toolExport == Export
toolBackup == Backup
toolRestore == Restore
toolSemanticSearch == VectorSearch
toolVectorReindex == VectorReindex
toolVectorStats == VectorStats
toolImportURL == ImportURL
toolSetTTL == SetTTL
toolFTSSearch == FTSSearch
toolFTSReindex == FTSReindex
toolFTSLanguages == FTSLanguages
toolHybridSearch == HybridSearch
toolRegisterWebhook == RegisterWebhook
toolListWebhooks == ListWebhooks
toolDeleteWebhook == DeleteWebhook
toolSetSchema == SetSchema
toolGetSchema == GetSchema
toolDeleteSchema == DeleteSchema
toolListSchemas == ListSchemas
toolValidateDocument == ValidateDocument
toolUpdateDocument == UpdateDocument
toolGetDocumentMeta == GetDocumentMeta
toolClassifyDocument == Classify

(***************************************************************************)
(* mcp_tools_bulk.go                                                       *)
(***************************************************************************)
resolveBulkManager == <<Disabled, Disabled>>
\* The job is saved before it is known that the queue takes it.
toolBulkIngestSubmit == resolveBulkManager \o Decoded \o <<BadInput>> \o Txn({"bulkjobs"}, {}) \o <<Full>>
toolBulkIngestStatus == resolveBulkManager \o <<BadInput, NotFound>>
toolBulkIngestList == resolveBulkManager \o <<Failed>>
toolBulkIngestCancel == resolveBulkManager \o <<BadInput, NotFound, Unless("settled")>> \o Txn({"bulkjobs"}, {})
toolAutocomplete == <<Disabled, BadInput, Failed>>

(***************************************************************************)
(* mcp_tools_geo.go                                                        *)
(***************************************************************************)
toolGeoSearch == GeoSearch
toolGeoWithin == GeoWithin
toolGeoPolygon == <<Disabled, Unless("loading"), BadInput, BadInput, Maybe(<<Done>>), BadInput, ShowAny>>
toolGeoStats == GeoStats
toolGeoEncode == GeoEncode
toolGeoDecode == GeoDecode

(***************************************************************************)
(* mcp_tools_admin.go, mcp_tools_curation.go, mcp_tools_advanced.go        *)
(***************************************************************************)
toolDeleteCollection == <<BadInput>> \o DeleteCollection
toolTruncateRevisions == Truncate
toolListRevisions == <<BadInput>> \o ListRevisions
toolRestoreRevision == <<BadInput>> \o RestoreRevision
toolListSynonyms == <<BadInput>> \o ListSynonyms
toolAddSynonym == Decoded \o SetSynonym
toolDeleteSynonym == <<BadInput>> \o DeleteSynonym
toolListStopWords == <<BadInput>> \o ListStopWords
toolAddStopWords == Decoded \o AddStopWords
toolDeleteStopWords == Decoded \o DeleteStopWords
toolGetMetaKeys == <<BadInput>> \o GetMetaKeys
toolGetChecksum == <<BadInput>> \o GetChecksum
toolListAutomation == ListAutomation
toolCreateAutomation == CreateAutomation
toolGetAutomation == <<BadInput>> \o GetAutomation
toolUpdateAutomation == <<BadInput>> \o UpdateAutomation
toolDeleteAutomation == <<BadInput>> \o DeleteAutomation
toolTestAutomation == <<BadInput>> \o TestAutomation
toolGetAutomationLogs == ListAutomationLogs
toolListCurationRules == ListCurationRules
toolCreateCurationRule == <<BadInput>> \o CreateCurationRule
toolUpdateCurationRule == Decoded \o UpdateCurationRule
toolDeleteCurationRule == <<BadInput>> \o DeleteCurationRule
toolGetCollectionConfig == <<BadInput>> \o GetCollectionConfig
toolSetCollectionConfig == <<BadInput>> \o SetCollectionConfig
toolListCollectionConfigs == ListCollectionConfigs
toolCrossSearch == <<BadInput>> \o CrossSearch
toolAggregate == Aggregate
toolFindDuplicates == FindDuplicates
toolIngest == Decoded \o Ingest
\* The time to live it is given is not passed on.
toolUploadFile == <<BadInput, BadInput, BadInput, BadInput>> \o Add

(***************************************************************************)
(* mcp_tools_wordpress.go: the post leaves the process.                    *)
(***************************************************************************)
wordpressTargetFor == <<OneOf(<< <<BadInput>>, <<BadInput, NotFound>> >>)>>
wordpressPost == <<Failed, Tell({"wordpress"}), Failed, Unless("status")>>
toolWordPressPublish == wordpressTargetFor \o <<BadInput>> \o wordpressPost
toolWordPressSetStatus == wordpressTargetFor \o <<BadInput, BadInput>> \o wordpressPost

(***************************************************************************)
(* mcp_tools_memory.go                                                     *)
(***************************************************************************)
toolMemoryStartSession == <<BadInput>> \o Add
\* The session is neither looked up nor touched.
toolMemoryAddMessage == <<BadInput, BadInput>> \o Add
memoryRecallViaSemantic == VectorSearch
memoryRecallViaFTS == FTSSearch
memoryRecallViaHybrid == HybridSearch
toolMemoryRecall ==
  <<BadInput, OneOf(<<memoryRecallViaSemantic, memoryRecallViaFTS, memoryRecallViaHybrid>>)>>
toolMemorySummarize == <<BadInput>> \o Search \o <<NotFound>> \o Add
toolMemoryListSessions == Search
toolMemorySessionHistory == <<BadInput>> \o Search

(***************************************************************************)
(* Dispatch.                                                               *)
(***************************************************************************)
readMDDBResource == <<OneOf(<<Health, Stats, <<BadInput>> \o Get>>)>>
readSearchResource == <<BadInput>> \o Search
readResource == <<BadInput, OneOf(<<readMDDBResource, readSearchResource, <<Refuse("input")>> >>)>>

\* mcpToolAnnotations: the tools whose ReadOnlyHint is true, by the routes below.
ReadOnlyTools ==
  {"mcp_get_stats", "mcp_search_documents", "mcp_get_document_meta", "mcp_vector_stats", "mcp_fts_languages",
   "mcp_list_webhooks", "mcp_get_schema", "mcp_list_schemas", "mcp_validate_document", "mcp_list_synonyms",
   "mcp_list_stopwords", "mcp_get_meta_keys", "mcp_get_checksum", "mcp_list_automation", "mcp_get_automation",
   "mcp_get_automation_logs", "mcp_get_collection_config", "mcp_list_collection_configs",
   "mcp_list_curation_rules", "mcp_list_revisions", "mcp_find_duplicates", "mcp_aggregate",
   "mcp_test_automation", "mcp_export_documents", "mcp_semantic_search", "mcp_full_text_search",
   "mcp_hybrid_search", "mcp_cross_search", "mcp_classify_document", "mcp_geo_search", "mcp_geo_within",
   "mcp_geo_polygon", "mcp_geo_stats", "mcp_geo_encode", "mcp_geo_decode", "mcp_bulk_ingest_status",
   "mcp_bulk_ingest_list", "mcp_autocomplete", "mcp_memory_recall", "mcp_memory_list_sessions",
   "mcp_memory_session_history"}
isToolReadOnly(name) == name \in ReadOnlyTools

\* The tools by name, as mcpCallTool dispatches them.
Tools ==
  [mcp_add_document |-> toolAddDocument, mcp_search_documents |-> toolSearchDocuments,
   mcp_delete_document |-> toolDeleteDocument, mcp_get_stats |-> toolGetStats,
   mcp_add_documents_batch |-> toolAddBatch, mcp_delete_documents_batch |-> toolDeleteBatch,
   mcp_export_documents |-> toolExport, mcp_create_backup |-> toolBackup,
   mcp_restore_backup |-> toolRestore, mcp_semantic_search |-> toolSemanticSearch,
   mcp_vector_reindex |-> toolVectorReindex, mcp_vector_stats |-> toolVectorStats,
   mcp_import_url |-> toolImportURL, mcp_set_ttl |-> toolSetTTL,
   mcp_bulk_ingest_submit |-> toolBulkIngestSubmit,
   mcp_bulk_ingest_status |-> toolBulkIngestStatus, mcp_bulk_ingest_list |-> toolBulkIngestList,
   mcp_bulk_ingest_cancel |-> toolBulkIngestCancel, mcp_full_text_search |-> toolFTSSearch,
   mcp_fts_reindex |-> toolFTSReindex, mcp_fts_languages |-> toolFTSLanguages,
   mcp_autocomplete |-> toolAutocomplete, mcp_hybrid_search |-> toolHybridSearch,
   mcp_geo_search |-> toolGeoSearch, mcp_geo_within |-> toolGeoWithin,
   mcp_geo_polygon |-> toolGeoPolygon, mcp_geo_stats |-> toolGeoStats,
   mcp_geo_encode |-> toolGeoEncode, mcp_geo_decode |-> toolGeoDecode,
   mcp_register_webhook |-> toolRegisterWebhook, mcp_list_webhooks |-> toolListWebhooks,
   mcp_delete_webhook |-> toolDeleteWebhook, mcp_set_schema |-> toolSetSchema,
   mcp_get_schema |-> toolGetSchema, mcp_delete_schema |-> toolDeleteSchema,
   mcp_list_schemas |-> toolListSchemas, mcp_validate_document |-> toolValidateDocument,
   mcp_update_document |-> toolUpdateDocument, mcp_get_document_meta |-> toolGetDocumentMeta,
   mcp_classify_document |-> toolClassifyDocument, mcp_delete_collection |-> toolDeleteCollection,
   mcp_truncate_revisions |-> toolTruncateRevisions, mcp_list_revisions |-> toolListRevisions,
   mcp_restore_revision |-> toolRestoreRevision, mcp_list_synonyms |-> toolListSynonyms,
   mcp_add_synonym |-> toolAddSynonym, mcp_delete_synonym |-> toolDeleteSynonym,
   mcp_list_stopwords |-> toolListStopWords, mcp_add_stopwords |-> toolAddStopWords,
   mcp_delete_stopwords |-> toolDeleteStopWords, mcp_get_meta_keys |-> toolGetMetaKeys,
   mcp_get_checksum |-> toolGetChecksum, mcp_list_automation |-> toolListAutomation,
   mcp_create_automation |-> toolCreateAutomation, mcp_get_automation |-> toolGetAutomation,
   mcp_update_automation |-> toolUpdateAutomation, mcp_delete_automation |-> toolDeleteAutomation,
   mcp_test_automation |-> toolTestAutomation, mcp_get_automation_logs |-> toolGetAutomationLogs,
   mcp_get_collection_config |-> toolGetCollectionConfig,
   mcp_set_collection_config |-> toolSetCollectionConfig,
   mcp_list_collection_configs |-> toolListCollectionConfigs,
   mcp_list_curation_rules |-> toolListCurationRules,
   mcp_create_curation_rule |-> toolCreateCurationRule,
   mcp_update_curation_rule |-> toolUpdateCurationRule,
   mcp_delete_curation_rule |-> toolDeleteCurationRule, mcp_cross_search |-> toolCrossSearch,
   mcp_find_duplicates |-> toolFindDuplicates, mcp_aggregate |-> toolAggregate,
   mcp_ingest_documents |-> toolIngest, mcp_upload_file |-> toolUploadFile,
   mcp_wordpress_publish |-> toolWordPressPublish,
   mcp_wordpress_set_status |-> toolWordPressSetStatus,
   mcp_memory_start_session |-> toolMemoryStartSession,
   mcp_memory_add_message |-> toolMemoryAddMessage, mcp_memory_recall |-> toolMemoryRecall,
   mcp_memory_summarize |-> toolMemorySummarize,
   mcp_memory_list_sessions |-> toolMemoryListSessions,
   mcp_memory_session_history |-> toolMemorySessionHistory]

mcpCallTool(name) == IF isToolReadOnly(name) THEN Tools[name] ELSE <<Mode>> \o Tools[name]
\* An operator's tool is given one of three actions its defaults; the fourth that
\* validateMCPCustomTools lets it name is refused when it is called.
mcpMergeActionDefaults(action) ==
  IF action \in {"mcp_semantic_search", "mcp_search_documents", "mcp_full_text_search"}
  THEN <<>> ELSE <<Refuse("unknown")>>
\* Arguments that are pinned or not declared are dropped without an error.
mcpMergeCustomToolArgs(action) == mcpMergeActionDefaults(action)
mcpCallCustomTool(action) == mcpMergeCustomToolArgs(action) \o mcpCallTool(action)
CustomTool ==
  <<OneOf(<<mcpCallCustomTool("mcp_semantic_search"), mcpCallCustomTool("mcp_search_documents"),
            mcpCallCustomTool("mcp_full_text_search"), mcpCallCustomTool("mcp_fts_languages")>>)>>

(***************************************************************************)
(* mcp_handler.go, mcp_protocol.go: the methods of the protocol.  An error *)
(* of a method is put into its result.                                     *)
(***************************************************************************)
handleInitialize == <<>>
handleResourcesList == <<>>
handleResourcesRead == readResource
\* One page, of what follows the cursor; a cursor that names no tool is ignored.
handleToolsList == <<>>
handleToolsCall(name) == mcpCallTool(name)
handlePromptsList == <<>>
\* Each of the five prompts has an argument it cannot do without.
mcpGetPrompt == <<OneOf(<< <<BadInput>>, <<Refuse("unknown")>> >>)>>
handlePromptsGet == mcpGetPrompt
mcpCompletePromptArg == <<>>
\* Statistics that fail complete to nothing.
mcpCompleteCollection == <<OneOf(<< <<Done>>, <<>> >>)>>
mcpComplete == <<OneOf(<<mcpCompletePromptArg, mcpCompleteCollection, <<>> >>)>>
handleComplete == mcpComplete
handleSetLogLevel == <<BadInput, Tell({"loglevel"})>>
\* The methods but tools/call, whose tools are routes of their own, and the
\* notifications that have no answer.
Handle ==
  [mcp_initialize |-> handleInitialize, mcp_resources |-> handleResourcesList, mcp_resource |-> handleResourcesRead,
   mcp_tools |-> handleToolsList, mcp_custom_tool |-> CustomTool, mcp_unknown_tool |-> <<Mode, Refuse("unknown")>>,
   mcp_prompts |-> handlePromptsList, mcp_prompt |-> handlePromptsGet, mcp_complete |-> handleComplete,
   mcp_set_level |-> handleSetLogLevel, mcp_ping |-> <<>>, mcp_notification |-> <<>>,
   mcp_unknown_method |-> <<Refuse("unknown")>>]
HandleJSON(method) == <<BadInput>> \o method

CalledTools == [name \in DOMAIN Tools |-> HandleJSON(handleToolsCall(name))]
McpOther == [name \in DOMAIN Handle |-> HandleJSON(Handle[name])]
=============================================================================
