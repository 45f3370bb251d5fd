------------------------------ MODULE Showcase ------------------------------
(***************************************************************************)
(* What visitors see before they sign in: the articles, questions and      *)
(* pages of the platform's marketing site, the leads it collects, and the  *)
(* banners of a tenant.  Editors send whole forms or parts of them, several *)
(* at a time, and what a form leaves out is kept, emptied or reset from    *)
(* one kind of row to the next.                                            *)
(***************************************************************************)
EXTENDS Integers, FiniteSets

CONSTANTS
  Articles, Faqs, Pages, Banners, Leads,  \* ids of rows
  Editors                                 \* edits of a question in flight at one time

VARIABLES
  articles,  \* rows of blog_posts: without a date an article is a draft
  faqs,      \* rows of faqs
  editing,   \* the edits of questions that have read the rows and not yet written
  asked,     \* per question, the switch that was written last at somebody's request (an observer)
  crossed,   \* the questions whose switch an edit, older than that request, has put back since (an observer)
  pages,     \* rows of cms_pages
  banners,
  leads

questionVars == <<faqs, editing, asked, crossed>>
showcaseVars == <<articles, faqs, editing, asked, crossed, pages, banners, leads>>

States == {"none", "there"}
NoArticle == [state |-> "none", dated |-> FALSE]
NoFaq == [state |-> "none", active |-> FALSE]
NotEditing == [faq |-> "none", active |-> FALSE, asks |-> FALSE, stale |-> FALSE]
NoPage == [state |-> "none", published |-> FALSE]
NoBanner == [state |-> "none", active |-> FALSE]
NoLead == [state |-> "none", status |-> "new", slots |-> FALSE]

\* A flag in a body: given, or left out.
Flags == {"on", "off", "omitted"}
\* Mutant of BoolPtrToBool: what is left out is off.
OmittedIsOff(flag, otherwise) == flag = "on"
BoolPtrToBool(flag, otherwise) == IF flag = "omitted" THEN otherwise ELSE flag = "on"

ShowcaseTypeOK ==
  /\ articles \in [Articles -> [state : States, dated : BOOLEAN]]
  /\ faqs \in [Faqs -> [state : States \cup {"gone"}, active : BOOLEAN]]
  /\ editing \in [Editors -> [faq : Faqs \cup {"none"}, active : BOOLEAN, asks : BOOLEAN, stale : BOOLEAN]]
  /\ asked \in [Faqs -> BOOLEAN] /\ crossed \in SUBSET Faqs
  /\ pages \in [Pages -> [state : States, published : BOOLEAN]]
  /\ banners \in [Banners -> [state : States, active : BOOLEAN]]
  /\ leads \in [Leads -> [state : States, status : {"new", "demo", "lost"}, slots : BOOLEAN]]

ShowcaseInit ==
  /\ articles = [a \in Articles |-> NoArticle]
  /\ faqs = [f \in Faqs |-> NoFaq] /\ editing = [e \in Editors |-> NotEditing]
  /\ asked = [f \in Faqs |-> FALSE] /\ crossed = {}
  /\ pages = [s \in Pages |-> NoPage]
  /\ banners = [b \in Banners |-> NoBanner] /\ leads = [l \in Leads |-> NoLead]

-----------------------------------------------------------------------------
(* Articles: a draft is an article without a date *)

CreatePost(a, dated) == articles[a].state = "none" /\ articles' = [articles EXCEPT ![a] = [state |-> "there", dated |-> dated]]
\* Every other text that is left out is kept, but the date is written as it comes: an edit that
\* does not repeat it takes the article off the site.
UpdatePost(a, dated) == articles[a].state = "there" /\ articles' = [articles EXCEPT ![a].dated = dated]
DeletePost(a) == articles[a].state = "there" /\ articles' = [articles EXCEPT ![a] = NoArticle]
HandlePosts ==
  \E a \in Articles :
    \/ \E dated \in BOOLEAN : CreatePost(a, dated) \/ UpdatePost(a, dated)
    \/ DeletePost(a)

-----------------------------------------------------------------------------
(* Questions and the switch is_active; the other flag, show_on_home, is read, kept and written the *)
(* same way.  A row is active when it is made, is_active in the body is not looked at.             *)

CreateFaq(f) ==
  /\ faqs[f].state = "none"
  /\ faqs' = [faqs EXCEPT ![f] = [state |-> "there", active |-> TRUE]]
  /\ asked' = [asked EXCEPT ![f] = TRUE]
  /\ UNCHANGED <<editing, crossed>>

\* An edit reads all the rows to learn what to write if the flag is not given ...
ReadFaqs(e, f, active) ==
  /\ editing[e] = NotEditing /\ faqs[f].state = "there"
  /\ editing' = [editing EXCEPT ![e] = [faq |-> f, active |-> BoolPtrToBool(active, faqs[f].active),
                                        asks |-> active # "omitted", stale |-> FALSE]]
  /\ UNCHANGED <<faqs, asked, crossed>>
\* ... and writes what it has read over whatever the others have written since.  If it asks for a
\* switch, the edits of that question still to come that do not are older than this request.
UpdateFaq(e) ==
  /\ editing[e] # NotEditing
  /\ LET mine == editing[e]
         f == mine.faq
         written == faqs[f].state = "there"
     IN /\ faqs' = IF written THEN [faqs EXCEPT ![f].active = mine.active] ELSE faqs
        /\ asked' = IF written /\ mine.asks THEN [asked EXCEPT ![f] = mine.active] ELSE asked
        /\ crossed' = IF mine.asks THEN crossed \ {f} ELSE IF mine.stale THEN crossed \cup {f} ELSE crossed
        /\ editing' = [d \in Editors |->
             IF d = e THEN NotEditing
             ELSE IF mine.asks /\ editing[d].faq = f /\ ~editing[d].asks THEN [editing[d] EXCEPT !.stale = TRUE]
             ELSE editing[d]]
DeleteFaq(f) ==
  /\ faqs[f].state = "there"
  /\ faqs' = [faqs EXCEPT ![f] = [NoFaq EXCEPT !.state = "gone"]]
  /\ UNCHANGED <<editing, asked, crossed>>
HandleFaqs ==
  \/ \E f \in Faqs : CreateFaq(f) \/ DeleteFaq(f)
  \/ \E e \in Editors : UpdateFaq(e) \/ \E f \in Faqs, active \in Flags : ReadFaqs(e, f, active)

-----------------------------------------------------------------------------
(* Pages, banners, leads *)

\* The slug is that of the body.  A page saved without the flag is published.
UpsertCmsPage(s, published) ==
  pages' = [pages EXCEPT ![s] = [state |-> "there", published |-> BoolPtrToBool(published, TRUE)]]
HandleUpsertCmsPage == \E s \in Pages, published \in Flags : UpsertCmsPage(s, published)

\* is_active of a new row is its default; an edit that leaves it out writes FALSE.
CreateBanner(b) == banners[b].state = "none" /\ banners' = [banners EXCEPT ![b] = [state |-> "there", active |-> TRUE]]
UpdateBanner(b, active) == banners[b].state = "there" /\ banners' = [banners EXCEPT ![b].active = BoolPtrToBool(active, FALSE)]
SetBannerActive(b, active) == banners[b].state = "there" /\ banners' = [banners EXCEPT ![b].active = active]
DeleteBanner(b) == banners[b].state = "there" /\ banners' = [banners EXCEPT ![b] = NoBanner]
HandleCreateBanner == \E b \in Banners : CreateBanner(b)
HandleUpdateBanner == \E b \in Banners, active \in Flags : UpdateBanner(b, active)
HandleSetBannerActive == \E b \in Banners, active \in BOOLEAN : SetBannerActive(b, active)
HandleDeleteBanner == \E b \in Banners : DeleteBanner(b)

CreateLead(l) == leads[l].state = "none" /\ leads' = [leads EXCEPT ![l] = [NoLead EXCEPT !.state = "there"]]
\* Whatever sales has made of the lead meanwhile, it is to be given a demonstration; the slot is
\* put before the notes there are.
MarkBookingIntent(l) == leads[l].state = "there" /\ leads' = [leads EXCEPT ![l].status = "demo", ![l].slots = TRUE]
\* Notes in the body replace those there are.
UpdateLeadStatus(l, status, notes) ==
  /\ leads[l].state = "there"
  /\ leads' = [leads EXCEPT ![l].status = status, ![l].slots = @ /\ ~notes]
HandleLeads ==
  \E l \in Leads :
    \/ CreateLead(l) \/ MarkBookingIntent(l)
    \/ \E status \in {"new", "lost"}, notes \in BOOLEAN : UpdateLeadStatus(l, status, notes)

ShowcaseNext ==
  \/ HandlePosts /\ UNCHANGED <<questionVars, pages, banners, leads>>
  \/ HandleFaqs /\ UNCHANGED <<articles, pages, banners, leads>>
  \/ HandleUpsertCmsPage /\ UNCHANGED <<articles, questionVars, banners, leads>>
  \/ (HandleCreateBanner \/ HandleUpdateBanner \/ HandleSetBannerActive \/ HandleDeleteBanner)
     /\ UNCHANGED <<articles, questionVars, pages, leads>>
  \/ HandleLeads /\ UNCHANGED <<articles, questionVars, pages, banners>>

ShowcaseSpec == ShowcaseInit /\ [][ShowcaseNext]_showcaseVars

-----------------------------------------------------------------------------
\* A question stays shown or hidden as it was last asked for, through any number of edits that
\* leave the switch out, unless one of them had read the rows before that request was written and
\* wrote after it: then it puts the old switch back, for good (cms/service.go:335-366).
SwitchesHold == \A f \in Faqs \ crossed : faqs[f].state = "there" => faqs[f].active = asked[f]
=============================================================================
