---------------------------- MODULE ShareBundle ----------------------------
(* The share bundle: what ExportShareArtifacts writes of one snapshot, and the *)
(* local pages in it, which show the snapshot they were written with and poll  *)
(* share_status.js for a newer one (share_artifact_service.cpp). A bundle's    *)
(* content is the address, the viewers' link, the hotspot and whether the      *)
(* self-check counts a P0; texts, layout and filters are left out.             *)
EXTENDS SelfCheck

\* Without an address the link names this machine itself.
BuildViewerUrl(session) == IF session.hostIp = NoIp THEN Loopback ELSE session.hostIp

BuildShareBundleJson(session, health) ==
  [hostIp |-> session.hostIp, link |-> BuildViewerUrl(session), hotspot |-> session.hotspotRunning,
   urgent |-> BuildSelfCheckReport(session, health).p0 > 0]
NotWritten == [hostIp |-> NoIp, link |-> NoIp, hotspot |-> FALSE, urgent |-> FALSE]

PageKinds == {"card", "wizard", "selfcheck"}
Optional == {"status", "selfcheck"}
NoFiles == [card |-> NotWritten, wizard |-> NotWritten, json |-> NotWritten, status |-> NotWritten, selfcheck |-> NotWritten,
            ok |-> FALSE, live |-> FALSE]

\* The first n of the three files that must be written are; one of those that
\* cannot be ends the export. Of the others, that are written last, those of
\* missed cannot be, which is not looked at. live: the status script is new.
ExportShareArtifacts(files, json, n, missed) ==
  LET done   == (IF n > 0 THEN {"card"} ELSE {}) \cup (IF n > 1 THEN {"wizard"} ELSE {})
                \cup (IF n > 2 THEN {"json"} \cup (Optional \ missed) ELSE {})
  IN  [f \in DOMAIN files |->
         IF f = "ok" THEN n = 3 ELSE IF f = "live" THEN "status" \in done ELSE IF f \in done THEN json ELSE files[f]]

-----------------------------------------------------------------------------
(* A page of the bundle in a browser: what it shows and the link in its code.  *)

Closed == [kind |-> "none", shown |-> NotWritten, qr |-> NoIp]
\* The card draws the code again when the link or the state version changed.
CardForgetsLink(page, bundle) == [page EXCEPT !.shown = bundle]      \* seeded fault: the code keeps its link
RenderCard(page, bundle) ==
  [page EXCEPT !.shown = bundle, !.qr = IF page.qr = bundle.link /\ page.shown = bundle THEN @ ELSE bundle.link]
RenderWizard(page, bundle) == [page EXCEPT !.shown = bundle, !.qr = bundle.link]
RenderSelfCheck(page, bundle) == [page EXCEPT !.shown = bundle]
RenderBundle(page, bundle) ==
  CASE page.kind = "card" -> RenderCard(page, bundle)
    [] page.kind = "wizard" -> RenderWizard(page, bundle)
    [] page.kind = "selfcheck" -> RenderSelfCheck(page, bundle)
LoadPage(kind, files) == RenderBundle([Closed EXCEPT !.kind = kind], files[kind])
\* A script that was never written leaves the page as it is.
LoadLiveStatus(page, files) == IF files.status = NotWritten THEN page ELSE RenderBundle(page, files.status)
=============================================================================
