------------------------- MODULE ResourceCatalogue -------------------------
(***************************************************************************)
(* The resource types whose object is one API object with an identifier of *)
(* its own.  A type is described by the family its handlers belong to, by  *)
(* whether its Update builds the application URL, and by what becomes of   *)
(* each attribute of a block:                                              *)
(*   echoed     sent, and copied back from every reply;                    *)
(*   sticky     sent, and copied back only when the reply's is not empty;  *)
(*   writeonly  sent, never copied back;                                   *)
(*   unsent     not sent, and copied back from every reply;                *)
(*   ignored    neither sent nor copied back;                              *)
(*   panicking  its presence makes the payload builder panic.              *)
(* Computed attributes and the attributes of nested blocks are left out.   *)
(***************************************************************************)
AllFamilies ==
    {"integration", "chart", "detector", "team", "muting", "email",
     "bigpanda"}

Kinds == {"echoed", "sticky", "writeonly", "unsent", "ignored", "panicking"}

Blocks == [family : AllFamilies, updatesURL : BOOLEAN,
           attributes : [Kinds -> SUBSET STRING]]

Block(family, updatesURL, echoed, sticky, writeonly) ==
    [family |-> family, updatesURL |-> updatesURL,
     attributes |-> [echoed |-> echoed, sticky |-> sticky,
                     writeonly |-> writeonly, unsent |-> {}, ignored |-> {},
                     panicking |-> {}]]

Plain(echoed, sticky, writeonly) ==
    Block("integration", FALSE, echoed, sticky, writeonly)

----------------------------------------------------------------------------
(* Integrations.  The API does not return secrets.                         *)

VictorOps == Plain({"name", "enabled"}, {}, {"post_url"})
Slack     == Plain({"name", "enabled"}, {}, {"webhook_url"})
Opsgenie  == Plain({"name", "enabled"}, {}, {"api_key", "api_url"})
PagerDuty == Plain({"name", "enabled"}, {}, {"api_key"})

ServiceNow ==
    Plain({"name", "enabled", "instance_name", "issue_type"},
          {"alert_triggered_payload_template",
           "alert_resolved_payload_template"},
          {"username", "password"})

Webhook ==
    Plain({"name", "enabled", "url", "shared_secret", "method",
           "payload_template"}, {"headers"}, {})

\* Of username and user_email the one that auth_method selects.
Jira ==
    Plain({"name", "enabled", "auth_method", "base_url", "issue_type",
           "project_key", "username", "user_email", "assignee_name"},
          {"assignee_display_name"}, {"password", "api_token"})

Azure ==
    Plain({"name", "enabled", "environment", "poll_rate", "tenant_id",
           "named_token", "sync_guest_os_namespaces",
           "import_azure_monitor", "use_batch_api"},
          {"services", "additional_services", "subscriptions",
           "custom_namespaces_per_service", "resource_filter_rules"},
          {"app_id", "secret_key"})

GCP ==
    Plain({"name", "enabled", "use_metric_source_project_for_quota",
           "poll_rate", "named_token", "import_gcp_metrics", "auth_method",
           "project_wif_configs", "workload_identity_federation_config",
           "include_list", "custom_metric_type_domains",
           "exclude_gce_instances_with_labels"},
          {"services", "projects"}, {"project_service_keys"})

BigPanda ==
    Block("bigpanda", FALSE,
          {"name", "enabled", "alert_triggered_payload_template",
           "alert_resolved_payload_template"}, {}, {"app_key", "token"})

----------------------------------------------------------------------------
(* Other objects.                                                          *)

DataLink ==
    Plain({"property_name", "property_value", "context_dashboard_id"},
          {"target_signalfx_dashboard", "target_external_url",
           "target_splunk", "target_appd_url"}, {})

SLO == Plain({"name", "description", "type", "input", "target"}, {}, {})

Team ==
    Block("team", FALSE, {"name", "description"},
          {"members", "notifications_default", "notifications_info",
           "notifications_minor", "notifications_warning",
           "notifications_major", "notifications_critical"}, {})

\* start_time is copied back only into a block that does not set it.
MutingRule ==
    Block("muting", FALSE,
          {"description", "stop_time", "filter", "detectors", "recurrence"},
          {}, {"start_time"})

EmailTemplate ==
    Block("email", FALSE,
          {"name", "trigger_subject", "trigger_body", "resolved_subject",
           "resolved_body", "to", "cc", "bcc", "custom_headers"}, {}, {})

----------------------------------------------------------------------------
(* Charts and dashboards.                                                  *)

Chart(updatesURL, echoed, sticky, writeonly) ==
    Block("chart", updatesURL, {"name", "description"} \union echoed,
          sticky, writeonly)

Times   == {"time_range", "start_time", "end_time"}
Program == {"max_delay", "timezone", "disable_sampling"}

\* The payload's tags are those of an outer variable that stays nil.
TimeChart ==
    [Chart(TRUE,
           {"program_text", "axes_include_zero", "color_by", "plot_type",
            "axes_precision", "show_event_lines", "stacked",
            "unit_prefix"},
           Times \union Program
           \union {"minimum_resolution", "show_data_markers",
                   "histogram_options", "axis_left", "axis_right",
                   "viz_options", "event_options", "legend_options_fields",
                   "on_chart_legend_dimension"},
           {"legend_fields_to_hide"})
     EXCEPT !.attributes.unsent = {"tags"}]

Heatmap ==
    Chart(TRUE, {"program_text", "unit_prefix", "group_by",
                 "hide_timestamp"},
          Program \union {"minimum_resolution", "refresh_interval",
                          "color_range", "color_scale", "sort_by"},
          {"tags"})

TableChart ==
    Chart(TRUE, {"program_text", "unit_prefix", "group_by",
                 "hide_timestamp"},
          Program \union {"minimum_resolution", "refresh_interval",
                          "viz_options"},
          {"tags"})

SingleValueChart ==
    Chart(FALSE, {"program_text", "unit_prefix", "color_by",
                  "max_precision", "secondary_visualization",
                  "is_timestamp_hidden", "show_spark_line"},
          {"max_delay", "timezone", "refresh_interval", "viz_options",
           "color_scale"},
          {"tags"})

ListChart ==
    Chart(FALSE, {"program_text", "unit_prefix", "color_by",
                  "max_precision", "secondary_visualization", "sort_by",
                  "hide_missing_values"},
          Times \union Program
          \union {"refresh_interval", "viz_options", "color_scale",
                  "legend_options_fields"},
          {"legend_fields_to_hide", "tags"})

TextChart == Chart(FALSE, {"markdown"}, {}, {"tags"})

EventFeedChart ==
    [Chart(FALSE, {"program_text"}, Times, {})
     EXCEPT !.attributes.ignored = {"tags"}]

LogView ==
    Chart(FALSE, {"program_text"},
          Times \union {"columns", "sort_options", "default_connection"},
          {"tags"})

LogTimeline ==
    Chart(FALSE, {"program_text"}, Times \union {"default_connection"},
          {"tags"})

\* Its URL comes from LoadApplicationURL, which does not fail.
SLOChart == Plain({"slo_id"}, {}, {})

\* chart is copied back unless the block sets grid or column.
Dashboard ==
    Chart(TRUE, {"dashboard_group", "charts_resolution", "chart"},
          Times \union {"authorized_writer_teams",
                        "authorized_writer_users", "permissions", "filter",
                        "variable", "event_overlay",
                        "selected_event_overlay", "discovery_options_query",
                        "discovery_options_selectors"},
          {"grid", "column", "tags"})

\* start_time is an int asserted to be an int64; end_time is only sent with it
\* and only read from a time without a range, as TimeSettings has it.
Detector ==
    [Block("detector", TRUE,
           {"name", "description", "program_text", "timezone", "tags",
            "teams", "rule", "detector_origin", "parent_detector_id"},
           {"max_delay", "min_delay", "show_data_markers",
            "show_event_lines", "disable_sampling", "time_range",
            "authorized_writer_teams", "authorized_writer_users",
            "viz_options"}, {})
     EXCEPT !.attributes.panicking = {"start_time"}]

Integrations == {VictorOps, Slack, Opsgenie, PagerDuty, ServiceNow, Webhook,
                 Jira, Azure, GCP, BigPanda}
OtherObjects == {DataLink, SLO, Team, MutingRule, EmailTemplate}
Visuals      == {TimeChart, Heatmap, TableChart, SingleValueChart,
                 ListChart, TextChart, EventFeedChart, LogView, LogTimeline,
                 SLOChart, Dashboard, Detector}
AllResources == Integrations \union OtherObjects \union Visuals
=============================================================================
