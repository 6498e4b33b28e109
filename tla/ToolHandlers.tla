---------------------------- MODULE ToolHandlers ----------------------------
(***************************************************************************)
(* What every tool handler (under operation) asks of Gitea.  A handler *)
(* checks its arguments and then runs a program: a sequence of steps, each *)
(* one request to Gitea or one write to the local disk.  Its arguments     *)
(* choose the program, so a method has a set of them.  What a request says *)
(* and how its answer is formatted is left out.                            *)
(*                                                                         *)
(* The SDK (gitea.dev/sdk) is external: a call of it is one request.  It   *)
(* tells an answer that is not a success by an error; three methods tell   *)
(* it by a flag, which they may leave false without an error.              *)
(***************************************************************************)
EXTENDS Naturals, Sequences, TLC

CONSTANT MaxReviews   \* reviews on a page that have comments

ASSUME ReviewsAssumption == MaxReviews \in Nat

-----------------------------------------------------------------------------
(* Steps: who sends the request, whether it writes, under how many paths    *)
(* it is tried, whether its failure is passed over, what the handler does   *)
(* with the SDK's success flag, and whether Gitea may put the write off.    *)

SdkGet ==
    [via |-> "sdk", writes |-> FALSE, paths |-> 1, optional |-> FALSE,
     flag |-> "none", defers |-> FALSE]
SdkWrite == [SdkGet EXCEPT !.writes = TRUE]
FlaggedWrite == [SdkWrite EXCEPT !.flag = "read"]
UnreadFlag == [SdkWrite EXCEPT !.flag = "ignored"]
RestGet == [SdkGet EXCEPT !.via = "rest"]
RestWrite == [SdkWrite EXCEPT !.via = "rest"]
GetAttachment == [SdkGet EXCEPT !.via = "attachment"]
SaveFile == [SdkGet EXCEPT !.via = "disk"]

Fallback(step, n) == [step EXCEPT !.paths = n]
BestEffort(step) == [step EXCEPT !.optional = TRUE]
MayWait(step) == [step EXCEPT !.defers = TRUE]

\* The program of a handler that makes one request.
Only(step) == {<<step>>}

\* A tool without a method argument has the one method "call".
Plain(programs) == [call |-> programs]

ReadTool(scope, name, methods) ==
    [scope |-> scope, name |-> name, writes |-> FALSE, methods |-> methods]
WriteTool(scope, name, methods) ==
    [ReadTool(scope, name, methods) EXCEPT !.writes = TRUE]

-----------------------------------------------------------------------------
(* Issues and attachments.                                                  *)

GetIssue == [get |-> Only(RestGet)]
ListIssues == Only(SdkGet)
CreateAndEditIssue ==
    [create |-> Only(SdkWrite), add_comment |-> Only(SdkWrite), update |-> Only(SdkWrite)]
EditIssueComment == [edit_comment |-> Only(SdkWrite)]
GetIssueParts == [get_comments |-> Only(RestGet), get_labels |-> Only(SdkGet)]
IssueLabels ==
    [add_labels |-> Only(SdkWrite), replace_labels |-> Only(SdkWrite),
     clear_labels |-> Only(SdkWrite), remove_label |-> Only(SdkWrite)]

IssueTools ==
    {ReadTool("issue", "list_issues", Plain(ListIssues)),
     ReadTool("issue", "issue_read", GetIssue @@ GetIssueParts),
     WriteTool("issue", "issue_write",
               CreateAndEditIssue @@ EditIssueComment @@ IssueLabels)}

\* An attachment named by its UUID needs no look-up; a small image is returned
\* in the answer, anything else is saved on the server's disk.
DownloadAttachment ==
    {lookup \o <<GetAttachment>> \o save :
        lookup \in {<<>>, <<SdkGet>>}, save \in {<<>>, <<SaveFile>>}}

AttachmentReads ==
    [list |-> Only(SdkGet), get |-> Only(SdkGet), download |-> DownloadAttachment]
AttachmentTools == {ReadTool("issue", "attachment_read", AttachmentReads)}

-----------------------------------------------------------------------------
(* Pull requests.                                                           *)

CloseAndReopen == [close |-> Only(SdkWrite), reopen |-> Only(SdkWrite)]
\* The assets come from an endpoint of their own, with its error only logged.
GetPull == [get |-> {<<SdkGet, BestEffort(RestGet)>>}]
GetDiff == [get_diff |-> Only(SdkGet)]
ListPulls == Only(SdkGet)
CreatePull == [create |-> Only(SdkWrite)]
PullReviewers == [add_reviewers |-> Only(SdkWrite), remove_reviewers |-> Only(SdkWrite)]
GetReviews == [get_reviews |-> Only(SdkGet), get_review |-> Only(SdkGet)]
\* One request for a given review; without one, a page of reviews first.
GetReviewComments ==
    [get_review_comments |-> {[i \in 1..n |-> SdkGet] : n \in 1..MaxReviews + 1}]
CreateAndSubmitReview == [create |-> Only(SdkWrite), submit |-> Only(SdkWrite)]
DeleteAndDismissReview == [delete |-> Only(SdkWrite), dismiss |-> Only(SdkWrite)]
ReviewThreads ==
    [reply_comment |-> Only(SdkWrite), resolve_thread |-> Only(SdkWrite),
     unresolve_thread |-> Only(SdkWrite)]
\* Defect: the flag of the merge is not looked at.
MergeUnchecked == [merge |-> Only(UnreadFlag)]
\* With merge_when_checks_succeed Gitea may put the merge off.
MergePull == [merge |-> {<<FlaggedWrite>>, <<MayWait(FlaggedWrite)>>}]

\* Defect: the title is fetched after the edit instead of before it.
FetchAfterEdit == [update |-> {<<SdkWrite>>, <<SdkWrite, SdkGet>>}]
\* Toggling the draft prefix without a title reads the title first.
EditPull == [update |-> {<<SdkWrite>>, <<SdkGet, SdkWrite>>}]
UpdateBranch == [update_branch |-> Only(RestWrite)]
GetFilesAndStatus == [get_files |-> Only(SdkGet), get_status |-> {<<SdkGet, SdkGet>>}]

PullTools ==
    {ReadTool("pull_request", "list_pull_requests", Plain(ListPulls)),
     ReadTool("pull_request", "pull_request_read",
              GetPull @@ GetDiff @@ GetReviews @@ GetReviewComments @@ GetFilesAndStatus),
     WriteTool("pull_request", "pull_request_write",
               CloseAndReopen @@ CreatePull @@ PullReviewers @@ MergePull
               @@ EditPull @@ UpdateBranch),
     WriteTool("pull_request", "pull_request_review_write",
               CreateAndSubmitReview @@ DeleteAndDismissReview @@ ReviewThreads)}

-----------------------------------------------------------------------------
(* Actions: endpoints whose path differs between Gitea versions.            *)

Workflows == [list_workflows |-> Only(RestGet), get_workflow |-> Only(RestGet)]
Dispatch == [dispatch_workflow |-> Only(Fallback(RestWrite, 2))]
Runs == [list_runs |-> Only(RestGet), get_run |-> Only(RestGet)]
CancelAndRerun ==
    [cancel_run |-> Only(RestWrite), rerun_run |-> Only(Fallback(RestWrite, 2))]
Jobs ==
    [list_jobs |-> Only(RestGet), list_run_jobs |-> Only(RestGet), get_job |-> Only(RestGet)]
FetchJobLog == Fallback(RestGet, 4)
JobLogs ==
    [get_job_log_preview |-> Only(FetchJobLog),
     download_job_log |-> {<<FetchJobLog, SaveFile>>}]
Artifacts ==
    [list_artifacts |-> Only(RestGet), list_run_artifacts |-> Only(RestGet),
     get_artifact |-> Only(RestGet)]
\* The metadata only names the file and tells an expired artifact.
DownloadArtifact == [download_artifact |-> {<<BestEffort(RestGet), RestGet, SaveFile>>}]

RunTools ==
    {ReadTool("actions", "actions_run_read",
              Workflows @@ Runs @@ Jobs @@ JobLogs @@ Artifacts @@ DownloadArtifact),
     WriteTool("actions", "actions_run_write", Dispatch @@ CancelAndRerun)}

RepoSecrets ==
    [list_repo_secrets |-> Only(SdkGet), upsert_repo_secret |-> Only(SdkWrite),
     delete_repo_secret |-> Only(SdkWrite)]
OrgSecrets ==
    [list_org_secrets |-> Only(SdkGet), upsert_org_secret |-> Only(SdkWrite),
     delete_org_secret |-> Only(RestWrite)]
RepoVariables ==
    [list_repo_variables |-> Only(RestGet), get_repo_variable |-> Only(SdkGet),
     create_repo_variable |-> Only(SdkWrite), update_repo_variable |-> Only(SdkWrite),
     delete_repo_variable |-> Only(SdkWrite)]
OrgVariables ==
    [list_org_variables |-> Only(SdkGet), get_org_variable |-> Only(SdkGet),
     create_org_variable |-> Only(SdkWrite), update_org_variable |-> Only(SdkWrite),
     delete_org_variable |-> Only(RestWrite)]

Among(methods, table) == [m \in methods |-> table[m]]
ConfigReads ==
    {"list_repo_secrets", "list_org_secrets", "list_repo_variables",
     "get_repo_variable", "list_org_variables", "get_org_variable"}
ConfigTools ==
    LET all == RepoSecrets @@ OrgSecrets @@ RepoVariables @@ OrgVariables
    IN {ReadTool("actions", "actions_config_read", Among(ConfigReads, all)),
        WriteTool("actions", "actions_config_write",
                  Among(DOMAIN all \ ConfigReads, all))}

-----------------------------------------------------------------------------
(* Repositories, their trees, files, branches, tags, commits and releases.  *)

RepoTools ==
    {WriteTool("repository", "create_repo", Plain(Only(SdkWrite))),
     WriteTool("repository", "fork_repo", Plain(Only(SdkWrite))),
     ReadTool("repository", "list_my_repos", Plain(Only(SdkGet))),
     ReadTool("repository", "list_org_repos", Plain(Only(SdkGet)))}
TreeTools == {ReadTool("repository", "get_repository_tree", Plain(Only(SdkGet)))}

FileReads ==
    {ReadTool("file", "get_file_contents", Plain(Only(SdkGet))),
     ReadTool("file", "get_dir_contents", Plain(Only(SdkGet)))}
FileWrites ==
    {WriteTool("file", "create_or_update_file", Plain(Only(SdkWrite))),
     WriteTool("file", "delete_file", Plain(Only(SdkWrite)))}

BranchTools ==
    {WriteTool("branch", "create_branch", Plain(Only(SdkWrite))),
     WriteTool("branch", "delete_branch", Plain(Only(UnreadFlag))),
     ReadTool("branch", "list_branches", Plain(Only(SdkGet))),
     WriteTool("branch", "rename_branch", Plain(Only(FlaggedWrite)))}
TagTools ==
    {WriteTool("tag", "create_tag", Plain(Only(SdkWrite))),
     WriteTool("tag", "delete_tag", Plain(Only(SdkWrite))),
     ReadTool("tag", "get_tag", Plain(Only(SdkGet))),
     ReadTool("tag", "list_tags", Plain(Only(SdkGet)))}
CommitTools ==
    {ReadTool("commit", "list_commits", Plain(Only(SdkGet))),
     ReadTool("commit", "get_commit", Plain(Only(SdkGet)))}

ReleaseWrites ==
    {WriteTool("release", "create_release", Plain(Only(SdkWrite))),
     WriteTool("release", "delete_release", Plain(Only(SdkWrite)))}
ReleaseReads ==
    {ReadTool("release", "get_release", Plain(Only(SdkGet))),
     ReadTool("release", "get_latest_release", Plain(Only(SdkGet))),
     ReadTool("release", "list_releases", Plain(Only(SdkGet)))}

-----------------------------------------------------------------------------
(* Labels, milestones, wiki pages, tracked times.                           *)

RepoLabels ==
    [list_repo_labels |-> Only(SdkGet), get_repo_label |-> Only(SdkGet),
     create_repo_label |-> Only(SdkWrite), edit_repo_label |-> Only(SdkWrite),
     delete_repo_label |-> Only(SdkWrite)]
OrgLabels ==
    [list_org_labels |-> Only(SdkGet), create_org_label |-> Only(SdkWrite),
     edit_org_label |-> Only(SdkWrite), delete_org_label |-> Only(SdkWrite)]
LabelReads == {"list_repo_labels", "get_repo_label", "list_org_labels"}
LabelTools ==
    LET all == RepoLabels @@ OrgLabels
    IN {ReadTool("label", "label_read", Among(LabelReads, all)),
        WriteTool("label", "label_write", Among(DOMAIN all \ LabelReads, all))}

MilestoneReads == [get |-> Only(SdkGet), list |-> Only(SdkGet)]
MilestoneWrites ==
    [m \in {"create", "update", "edit", "delete"} |-> Only(SdkWrite)]
MilestoneTools ==
    {ReadTool("milestone", "milestone_read", MilestoneReads),
     WriteTool("milestone", "milestone_write", MilestoneWrites)}

WikiReads == [m \in {"list", "get", "get_revisions"} |-> Only(RestGet)]
WikiWrites == [m \in {"create", "update", "delete"} |-> Only(RestWrite)]
\* Defect: the deletion is registered with the read tool.
WikiReadsWithDelete ==
    {ReadTool("wiki", "wiki_read", WikiReads @@ Among({"delete"}, WikiWrites)),
     WriteTool("wiki", "wiki_write", Among({"create", "update"}, WikiWrites))}
WikiTools ==
    {ReadTool("wiki", "wiki_read", WikiReads),
     WriteTool("wiki", "wiki_write", WikiWrites)}

Stopwatches ==
    [start_stopwatch |-> Only(SdkWrite), stop_stopwatch |-> Only(SdkWrite),
     delete_stopwatch |-> Only(SdkWrite), get_my_stopwatches |-> Only(SdkGet)]
TrackedTimes ==
    [list_issue_times |-> Only(SdkGet), add_time |-> Only(SdkWrite),
     delete_time |-> Only(SdkWrite), list_repo_times |-> Only(SdkGet),
     get_my_times |-> Only(SdkGet)]
TimeReads == {"list_issue_times", "list_repo_times", "get_my_stopwatches", "get_my_times"}
TimeTools ==
    LET all == Stopwatches @@ TrackedTimes
    IN {ReadTool("timetracking", "timetracking_read", Among(TimeReads, all)),
        WriteTool("timetracking", "timetracking_write", Among(DOMAIN all \ TimeReads, all))}

-----------------------------------------------------------------------------
(* Notifications, packages, search, the user and the server's version.      *)

Notifications ==
    [list |-> Only(SdkGet), get |-> Only(SdkGet),
     mark_read |-> Only(SdkWrite), mark_all_read |-> Only(SdkWrite)]
NotificationTools ==
    {ReadTool("notification", "notification_read", Among({"list", "get"}, Notifications)),
     WriteTool("notification", "notification_write",
               Among({"mark_read", "mark_all_read"}, Notifications))}

Packages ==
    [list |-> Only(RestGet), list_versions |-> Only(RestGet), get |-> Only(RestGet),
     delete |-> Only(RestWrite)]
PackageTools ==
    {ReadTool("packages", "package_read", Among({"list", "list_versions", "get"}, Packages)),
     WriteTool("packages", "package_write", Among({"delete"}, Packages))}

SearchTools ==
    {ReadTool("search", name, Plain(Only(SdkGet))) :
        name \in {"search_users", "search_org_teams", "search_repos", "search_issues"}}
UserTools ==
    {ReadTool("user", name, Plain(Only(SdkGet))) : name \in {"get_me", "get_user_orgs"}}
\* The version is the server's own: no request.
VersionTools ==
    {ReadTool("version", "get_gitea_mcp_server_version", Plain({<<>>}))}

-----------------------------------------------------------------------------

DomainTools ==
    UNION {UserTools, RunTools, ConfigTools, RepoTools, TreeTools, NotificationTools,
           IssueTools, AttachmentTools, LabelTools, MilestoneTools, PackageTools,
           PullTools, SearchTools, VersionTools, WikiTools, TimeTools,
           FileReads, FileWrites, BranchTools, TagTools, CommitTools,
           ReleaseReads, ReleaseWrites}

=============================================================================
