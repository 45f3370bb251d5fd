------------------------------ MODULE MCCampus ------------------------------
(* Small instances of the modules of the campus: a run takes the steps of   *)
(* one of them, and the others stay where they begin.                       *)
EXTENDS
  Subscriptions, Referrals, TestAttempts, Fees, Attendance, Homework, Devices, Enrolments, Curriculum,
  Media, Gateway, Noticeboard, Showcase, Coupons, AppBuilds

CONSTANT Scenes   \* the modules the run looks at

VARIABLE scene

campusVars ==
  <<scene, subscriptionVars, referralVars, attemptVars, feeVars, attendanceVars, homeworkVars,
    deviceVars, enrolmentVars, curriculumVars, mediaVars, gatewayVars, noticeVars, showcaseVars,
    couponVars, buildVars>>

Init ==
  /\ scene \in Scenes
  /\ SubscriptionInit /\ ReferralInit /\ AttemptInit /\ FeeInit
  /\ AttendanceInit /\ HomeworkInit /\ DeviceInit /\ EnrolmentInit
  /\ CurriculumInit /\ MediaInit /\ GatewayInit /\ NoticeInit /\ ShowcaseInit
  /\ CouponInit /\ BuildInit
  \* Off the scene, one of the initial states is enough.
  /\ scene # "fee" => fee = NoFee
  /\ scene # "attendance" => lecture = "unscheduled"

\* Of the scene that is on, as the others do not change.
TypeOK ==
  /\ scene = "subscription" => SubscriptionTypeOK
  /\ scene = "referral" => ReferralTypeOK
  /\ scene = "test" => AttemptTypeOK
  /\ scene = "fee" => FeeTypeOK
  /\ scene = "attendance" => AttendanceTypeOK
  /\ scene = "homework" => HomeworkTypeOK
  /\ scene = "device" => DeviceTypeOK
  /\ scene = "enrolment" => EnrolmentTypeOK
  /\ scene = "curriculum" => CurriculumTypeOK
  /\ scene = "media" => MediaTypeOK
  /\ scene = "gateway" => GatewayTypeOK
  /\ scene = "notice" => NoticeTypeOK
  /\ scene = "showcase" => ShowcaseTypeOK
  /\ scene = "coupon" => CouponTypeOK
  /\ scene = "build" => BuildTypeOK

Next ==
  \/ /\ scene = "subscription" /\ SubscriptionNext
     /\ UNCHANGED <<scene, referralVars, attemptVars, feeVars, attendanceVars, homeworkVars,
                     deviceVars, enrolmentVars, curriculumVars, mediaVars, gatewayVars, noticeVars,
                     showcaseVars, couponVars, buildVars>>
  \/ /\ scene = "referral" /\ ReferralNext
     /\ UNCHANGED <<scene, subscriptionVars, attemptVars, feeVars, attendanceVars, homeworkVars,
                     deviceVars, enrolmentVars, curriculumVars, mediaVars, gatewayVars, noticeVars,
                     showcaseVars, couponVars, buildVars>>
  \/ /\ scene = "test" /\ AttemptNext
     /\ UNCHANGED <<scene, subscriptionVars, referralVars, feeVars, attendanceVars, homeworkVars,
                     deviceVars, enrolmentVars, curriculumVars, mediaVars, gatewayVars, noticeVars,
                     showcaseVars, couponVars, buildVars>>
  \/ /\ scene = "fee" /\ FeeNext
     /\ UNCHANGED <<scene, subscriptionVars, referralVars, attemptVars, attendanceVars, homeworkVars,
                     deviceVars, enrolmentVars, curriculumVars, mediaVars, gatewayVars, noticeVars,
                     showcaseVars, couponVars, buildVars>>
  \/ /\ scene = "attendance" /\ AttendanceNext
     /\ UNCHANGED <<scene, subscriptionVars, referralVars, attemptVars, feeVars, homeworkVars,
                     deviceVars, enrolmentVars, curriculumVars, mediaVars, gatewayVars, noticeVars,
                     showcaseVars, couponVars, buildVars>>
  \/ /\ scene = "homework" /\ HomeworkNext
     /\ UNCHANGED <<scene, subscriptionVars, referralVars, attemptVars, feeVars, attendanceVars,
                     deviceVars, enrolmentVars, curriculumVars, mediaVars, gatewayVars, noticeVars,
                     showcaseVars, couponVars, buildVars>>
  \/ /\ scene = "device" /\ DeviceNext
     /\ UNCHANGED <<scene, subscriptionVars, referralVars, attemptVars, feeVars, attendanceVars,
                     homeworkVars, enrolmentVars, curriculumVars, mediaVars, gatewayVars, noticeVars,
                     showcaseVars, couponVars, buildVars>>
  \/ /\ scene = "enrolment" /\ EnrolmentNext
     /\ UNCHANGED <<scene, subscriptionVars, referralVars, attemptVars, feeVars, attendanceVars,
                     homeworkVars, deviceVars, curriculumVars, mediaVars, gatewayVars, noticeVars,
                     showcaseVars, couponVars, buildVars>>
  \/ /\ scene = "curriculum" /\ CurriculumNext
     /\ UNCHANGED <<scene, subscriptionVars, referralVars, attemptVars, feeVars, attendanceVars,
                     homeworkVars, deviceVars, enrolmentVars, mediaVars, gatewayVars, noticeVars,
                     showcaseVars, couponVars, buildVars>>
  \/ /\ scene = "media" /\ MediaNext
     /\ UNCHANGED <<scene, subscriptionVars, referralVars, attemptVars, feeVars, attendanceVars,
                     homeworkVars, deviceVars, enrolmentVars, curriculumVars, gatewayVars, noticeVars,
                     showcaseVars, couponVars, buildVars>>
  \/ /\ scene = "gateway" /\ GatewayNext
     /\ UNCHANGED <<scene, subscriptionVars, referralVars, attemptVars, feeVars, attendanceVars,
                     homeworkVars, deviceVars, enrolmentVars, curriculumVars, mediaVars, noticeVars,
                     showcaseVars, couponVars, buildVars>>
  \/ /\ scene = "notice" /\ NoticeNext
     /\ UNCHANGED <<scene, subscriptionVars, referralVars, attemptVars, feeVars, attendanceVars,
                     homeworkVars, deviceVars, enrolmentVars, curriculumVars, mediaVars, gatewayVars,
                     showcaseVars, couponVars, buildVars>>
  \/ /\ scene = "showcase" /\ ShowcaseNext
     /\ UNCHANGED <<scene, subscriptionVars, referralVars, attemptVars, feeVars, attendanceVars,
                     homeworkVars, deviceVars, enrolmentVars, curriculumVars, mediaVars, gatewayVars,
                     noticeVars, couponVars, buildVars>>
  \/ /\ scene = "coupon" /\ CouponNext
     /\ UNCHANGED <<scene, subscriptionVars, referralVars, attemptVars, feeVars, attendanceVars,
                     homeworkVars, deviceVars, enrolmentVars, curriculumVars, mediaVars, gatewayVars,
                     noticeVars, showcaseVars, buildVars>>
  \/ /\ scene = "build" /\ BuildNext
     /\ UNCHANGED <<scene, subscriptionVars, referralVars, attemptVars, feeVars, attendanceVars,
                     homeworkVars, deviceVars, enrolmentVars, curriculumVars, mediaVars, gatewayVars,
                     noticeVars, showcaseVars, couponVars>>

Spec == Init /\ [][Next]_campusVars

-----------------------------------------------------------------------------
\* Paths below /admin that are no routes: none at all, unknown ones, and some that lie below a
\* group of the platform's staff.
StrayPaths == {<<>>, <<"nothing">>, <<"cms", "x">>, <<"platform", "tenants">>}
=============================================================================
